---- MODULE Spec2Model ----
(***************************************************************************)
(* A model of the dzip archive engine (LambdaEd1th/dzip-rs).               *)
(*                                                                         *)
(* The repository holds three generations of the engine:                   *)
(*   legacy  src/src/{pack,unpack,utils}.rs   (byte-level reads, anyhow)   *)
(*   core    src/core/src/*.rs                (binrw, source/sink traits)  *)
(*   cli     src/cli/src/main.rs              (DzipReader/DzipWriter)      *)
(* Each part of the model names the generation it is translated from.      *)
(***************************************************************************)
EXTENDS Integers, Sequences, FiniteSets, TLC

VARIABLES
    rc_impl,     \* reconciler: which generation runs ("core", "legacy", "cli")
    rc_chunks,   \* reconciler: the chunk table as read from the header
    rc_vol,      \* reconciler: byte length of each volume (index 0 = main)
    rc_real,     \* reconciler: real_c_len per chunk once reconciled
    rc_pc,       \* reconciler: "loaded" | "reconciled"
    px_impl,     \* output path: which generation extracts ("legacy", "core")
    px_dir,      \* output path: the file's directory string from the archive
    px_fname,    \* output path: the file's name string from the archive
    px_pc,       \* output path: "start" | "created" | "error"
    px_path,     \* output path: components of the path created / handed to the sink
    px_err,      \* output path: the error kind returned, or "none"
    pk_impl,     \* pack: which generation packs ("legacy", "cli")
    pk_cfg,      \* pack: the parsed config
    pk_pc,       \* pack: "start" | "streaming" | "ok" | "err"
    pk_err,      \* pack: the error the run returned, or "none"
    pk_header,   \* pack: header_size, chunk_table_start and the header's true length
    pk_table,    \* pack: the chunk table being finalized (sorted_chunks_def / chunks)
    pk_job,      \* pack: per chunk position, the producer's progress
    pk_res,      \* pack: per chunk position, the compressed length or "err"
    pk_chan,     \* pack: the bounded channel, oldest message first
    pk_buf,      \* pack: the writer's reorder buffer (positions held)
    pk_next,     \* pack: next_idx of the writer / index of the write loop
    pk_wr,       \* pack: writer thread "running" | "ok" | "err" | "panic"
    pk_off,      \* pack: per volume, the 32-bit running offset
    pk_pos,      \* pack: per volume, the stream position of its writer
    pk_log,      \* pack: every write made to a volume, in order
    pk_written,  \* pack: chunk positions whose buffers were written, in order
    pk_reordered,  \* pack: TRUE once the writer received a position ahead of next_idx
    rt_cfg,      \* round trip: the config handed to do_pack
    rt_src,      \* round trip: the bytes of each config file's source
    rt_keep_raw, \* round trip: the keep_raw argument of extract
    rt_pc,       \* round trip: "start" | "packed" | "loaded" | "planned" | "extracted" | "err"
    rt_archive,  \* round trip: the volumes written and the header's records
    rt_meta,     \* round trip: the ArchiveMetadata loaded
    rt_plan,     \* round trip: processed_chunks, real_c_len per chunk
    rt_out,      \* round trip: the bytes written for each file entry
    rt_err,      \* round trip: the error returned, or "none"
    ex_impl,     \* extraction: which generation extracts ("core", "legacy", "cli")
    ex_keep_raw, \* extraction: the keep_raw argument
    ex_chunks,   \* extraction: the chunk table of the archive (id = position - 1)
    ex_vols,     \* extraction: per volume, whether its file exists and its bytes
    ex_map,      \* extraction: map_entries, the chunk-id list of each file
    ex_real,     \* extraction: real_c_len per chunk once reconciled
    ex_pc,       \* extraction: "start" | "planned" | "running" | "ok" | "err"
    ex_todo,     \* extraction: map entries no worker has taken yet
    ex_worker,   \* extraction: per worker, its current file and position in the id list
    ex_out,      \* extraction: per map entry: created, what its writer got per chunk, flushed
    ex_events,   \* extraction: the progress events delivered, in order
    ex_err,      \* extraction: the error the run returned, or "none"
    md_impl,     \* metadata: which generation loads and emits ("legacy", "core")
    md_disk,     \* metadata: the header records of the archive being loaded
    md_pc,       \* metadata: "start" | "loaded" | "extracted" | "emitted" | "repacked" | "reloaded" | "err"
    md_meta,     \* metadata: what the first load returned
    md_files,    \* metadata: byte length of each file the extraction created
    md_cfg,      \* metadata: the config emitted after the extraction
    md_disk2,    \* metadata: the header records do_pack wrote from that config
    md_meta2,    \* metadata: what loading the re-packed archive returned
    md_err,      \* metadata: the error returned, or "none"
    md_list,     \* metadata: the entries do_list returned
    hd_map,      \* handles: per map entry, the volume and offset of each of its chunks
    hd_todo,     \* handles: map entries no worker has taken yet
    hd_worker,   \* handles: per worker: its entry, its chunk position, its step
    hd_handle,   \* handles: per read handle: open, seek position, the workers that used it
    hd_opens,    \* handles: per worker and volume: how often the worker opened it
    hd_wrong,    \* handles: a read began at a position other than its chunk's offset
    hd_pc,       \* handles: "idle" | "running" | "done"
    cd_op,       \* codecs: which conversion runs ("flags", "ids", "blocks")
    cd_in,       \* codecs: the value the round trip starts from
    cd_wire,     \* codecs: its other form (flag names, bytes)
    cd_out,      \* codecs: what came back
    cd_pc        \* codecs: "idle" | "start" | "mid" | "done"

rc_vars == <<rc_impl, rc_chunks, rc_vol, rc_real, rc_pc>>
px_vars == <<px_impl, px_dir, px_fname, px_pc, px_path, px_err>>

pk_vars == <<pk_impl, pk_cfg, pk_pc, pk_err, pk_header, pk_table, pk_job, pk_res,
             pk_chan, pk_buf, pk_next, pk_wr, pk_off, pk_pos, pk_log, pk_written,
             pk_reordered>>

rt_vars == <<rt_cfg, rt_src, rt_keep_raw, rt_pc, rt_archive, rt_meta, rt_plan,
             rt_out, rt_err>>

ex_vars == <<ex_impl, ex_keep_raw, ex_chunks, ex_vols, ex_map, ex_real, ex_pc,
             ex_todo, ex_worker, ex_out, ex_events, ex_err>>

md_vars == <<md_impl, md_disk, md_pc, md_meta, md_files, md_cfg, md_disk2, md_meta2,
             md_err, md_list>>

hd_vars == <<hd_map, hd_todo, hd_worker, hd_handle, hd_opens, hd_wrong, hd_pc>>

cd_vars == <<cd_op, cd_in, cd_wire, cd_out, cd_pc>>

vars == <<rc_vars, px_vars, pk_vars, rt_vars, ex_vars, md_vars, hd_vars, cd_vars>>

not_rc_vars == <<px_vars, pk_vars, rt_vars, ex_vars, md_vars, hd_vars, cd_vars>>
not_px_vars == <<rc_vars, pk_vars, rt_vars, ex_vars, md_vars, hd_vars, cd_vars>>
not_pk_vars == <<rc_vars, px_vars, rt_vars, ex_vars, md_vars, hd_vars, cd_vars>>
not_rt_vars == <<rc_vars, px_vars, pk_vars, ex_vars, md_vars, hd_vars, cd_vars>>
not_ex_vars == <<rc_vars, px_vars, pk_vars, rt_vars, md_vars, hd_vars, cd_vars>>
not_md_vars == <<rc_vars, px_vars, pk_vars, rt_vars, ex_vars, hd_vars, cd_vars>>
not_hd_vars == <<rc_vars, px_vars, pk_vars, rt_vars, ex_vars, md_vars, cd_vars>>
not_cd_vars == <<rc_vars, px_vars, pk_vars, rt_vars, ex_vars, md_vars, hd_vars>>

(***************************************************************************)
(* Each part of the engine is explored by its own specification; the       *)
(* variables of the other parts then rest at these values.                 *)
(***************************************************************************)
RcIdle ==
    /\ rc_impl = "core"
    /\ rc_chunks = <<>>
    /\ rc_vol = (0 :> 0)
    /\ rc_real = <<>>
    /\ rc_pc = "idle"

PxIdle ==
    /\ px_impl = "legacy"
    /\ px_dir = <<>>
    /\ px_fname = <<>>
    /\ px_pc = "idle"
    /\ px_path = <<>>
    /\ px_err = "none"

PkIdle ==
    /\ pk_impl = "legacy"
    /\ pk_cfg = <<>>
    /\ pk_pc = "idle"
    /\ pk_err = "none"
    /\ pk_header = <<>>
    /\ pk_table = <<>>
    /\ pk_job = <<>>
    /\ pk_res = <<>>
    /\ pk_chan = <<>>
    /\ pk_buf = {}
    /\ pk_next = 0
    /\ pk_wr = "idle"
    /\ pk_off = <<>>
    /\ pk_pos = <<>>
    /\ pk_log = <<>>
    /\ pk_written = <<>>
    /\ pk_reordered = FALSE

RtIdle ==
    /\ rt_cfg = <<>>
    /\ rt_src = <<>>
    /\ rt_keep_raw = FALSE
    /\ rt_pc = "idle"
    /\ rt_archive = <<>>
    /\ rt_meta = <<>>
    /\ rt_plan = <<>>
    /\ rt_out = <<>>
    /\ rt_err = "none"

ExIdle ==
    /\ ex_impl = "core"
    /\ ex_keep_raw = FALSE
    /\ ex_chunks = <<>>
    /\ ex_vols = <<>>
    /\ ex_map = <<>>
    /\ ex_real = <<>>
    /\ ex_pc = "idle"
    /\ ex_todo = {}
    /\ ex_worker = <<>>
    /\ ex_out = <<>>
    /\ ex_events = <<>>
    /\ ex_err = "none"

MdIdle ==
    /\ md_impl = "legacy"
    /\ md_disk = <<>>
    /\ md_pc = "idle"
    /\ md_meta = <<>>
    /\ md_files = <<>>
    /\ md_cfg = <<>>
    /\ md_disk2 = <<>>
    /\ md_meta2 = <<>>
    /\ md_err = "none"
    /\ md_list = <<>>

HdIdle ==
    /\ hd_map = <<>>
    /\ hd_todo = {}
    /\ hd_worker = <<>>
    /\ hd_handle = <<>>
    /\ hd_opens = <<>>
    /\ hd_wrong = FALSE
    /\ hd_pc = "idle"

CdIdle ==
    /\ cd_op = "flags"
    /\ cd_in = <<>>
    /\ cd_wire = <<>>
    /\ cd_out = <<>>
    /\ cd_pc = "idle"

(***************************************************************************)
(* Bounds.                                                                 *)
(***************************************************************************)
\* Width in bits of the model's "u32" (the code's is 32).
WordBits == 7
\* Width in bits of the model's "u16" (the code's is 16).
HalfBits == 2
\* Largest chunk table the reconciler is run on.
MaxChunks == 2

U32 == 2 ^ WordBits
U16 == 2 ^ HalfBits

Min(a, b) == IF a < b THEN a ELSE b
Max(a, b) == IF a > b THEN a ELSE b

(***************************************************************************)
(* Flag bits (ChunkFlags).                                                 *)
(***************************************************************************)
CHUNK_DZ == 4
CHUNK_ZLIB == 8
CHUNK_BZIP == 16
CHUNK_ZERO == 128
CHUNK_COPYCOMP == 256
CHUNK_LZMA == 512

\* flags & bit != 0, for a single-bit mask
HasBit(flags, bit) == (flags \div bit) % 2 = 1

(***************************************************************************)
(* Chunk geometry reconciler.                                              *)
(***************************************************************************)
\* A chunk record of the table: offset, c_len, d_len, flags, file_idx.
Chunk(o, c, d, f, v) == [offset |-> o, c_len |-> c, d_len |-> d, flags |-> f, file_idx |-> v]

\* Indices of the chunks of one volume, in table order
\* (file_chunks_map.entry(c.file_idx).or_default().push(idx)).
RECURSIVE GroupFrom(_, _, _)
GroupFrom(ch, v, i) ==
    IF i > Len(ch) THEN <<>>
    ELSE IF ch[i].file_idx = v THEN <<i>> \o GroupFrom(ch, v, i + 1)
    ELSE GroupFrom(ch, v, i + 1)

file_chunks_map(ch, v) == GroupFrom(ch, v, 1)

\* Insert index i into a list of indices sorted by offset, after every
\* index whose offset is <= its own (a stable sort keeps table order on ties).
RECURSIVE InsertByOffset(_, _, _)
InsertByOffset(ch, sorted, i) ==
    IF sorted = <<>> THEN <<i>>
    ELSE IF ch[Head(sorted)].offset <= ch[i].offset
         THEN <<Head(sorted)>> \o InsertByOffset(ch, Tail(sorted), i)
         ELSE <<i>> \o sorted

RECURSIVE SortFrom(_, _, _)
SortFrom(ch, idxs, acc) ==
    IF idxs = <<>> THEN acc
    ELSE SortFrom(ch, Tail(idxs), InsertByOffset(ch, acc, Head(idxs)))

\* sorted_indices.sort_by_key(|&i| chunks[i].offset)
sorted_indices(ch, v) == SortFrom(ch, file_chunks_map(ch, v), <<>>)

\* Position of index i in a list that holds it.
RECURSIVE PosIn(_, _)
PosIn(s, i) == IF Head(s) = i THEN 1 ELSE 1 + PosIn(Tail(s), i)

\* `x as u32`
AsU32(x) == x % U32
AsU16(x) == x % U16

core_next_offset_Wide(ch, vl, sorted, k) ==
    IF k = Len(sorted) THEN vl[ch[sorted[k]].file_idx]
    ELSE ch[sorted[k + 1]].offset

core_next_offset_VolumeEnd(ch, vl, sorted, k) ==
    AsU32(vl[ch[sorted[k]].file_idx])

\* core: next_offset of the k-th chunk of a sorted group.
core_next_offset(ch, vl, sorted, k) ==
    IF k = Len(sorted) THEN AsU32(vl[ch[sorted[k]].file_idx])
    ELSE ch[sorted[k + 1]].offset

core_real_c_len_NoFallback(c, next_offset) ==
    IF next_offset < c.offset THEN 0 ELSE next_offset - c.offset

core_real_c_len_HeaderOnly(c, next_offset) ==
    c.c_len

\* core: the if/else that sets real_c_len.
core_real_c_len(c, next_offset) ==
    IF next_offset < c.offset THEN c.c_len ELSE next_offset - c.offset

\* core: UnpackPlan::calculate_chunk_sizes, as the list of real_c_len.
calculate_chunk_sizes(ch, vl) ==
    [i \in 1..Len(ch) |->
        LET sorted == sorted_indices(ch, ch[i].file_idx)
            k == PosIn(sorted, i)
        IN  core_real_c_len(ch[i], core_next_offset(ch, vl, sorted, k))]

\* legacy: next_offset of the k-th chunk of a sorted group.
legacy_next_offset(ch, vl, sorted, k) ==
    IF k = Len(sorted) THEN AsU32(vl[ch[sorted[k]].file_idx])
    ELSE ch[sorted[k + 1]].offset

\* legacy: the if/else that sets real_c_len.
legacy_real_c_len(c, next_offset) ==
    IF next_offset < c.offset THEN c.c_len ELSE next_offset - c.offset

\* legacy: the "ZSIZE Correction" loop of do_unpack.
zsize_correction(ch, vl) ==
    [i \in 1..Len(ch) |->
        LET sorted == sorted_indices(ch, ch[i].file_idx)
            k == PosIn(sorted, i)
        IN  legacy_real_c_len(ch[i], legacy_next_offset(ch, vl, sorted, k))]

\* cli: limit of the i-th chunk of a sorted group (u64, not truncated).
cli_limit(ch, vl, sorted, k) ==
    IF k + 1 <= Len(sorted) THEN ch[sorted[k + 1]].offset
    ELSE vl[ch[sorted[k]].file_idx]

\* limit.saturating_sub(chunk_offset)
saturating_sub(a, b) == IF a >= b THEN a - b ELSE 0

\* cli: is_compressed
is_compressed(c) ==
    \/ HasBit(c.flags, CHUNK_LZMA)
    \/ HasBit(c.flags, CHUNK_ZLIB)
    \/ HasBit(c.flags, CHUNK_BZIP)
    \/ HasBit(c.flags, CHUNK_DZ)

\* cli: equal_sizes
equal_sizes(c) == c.c_len = c.d_len

cli_compressed_length_NoClamp(c, available) ==
    IF is_compressed(c) /\ equal_sizes(c) THEN AsU32(available)
    ELSE c.c_len

cli_compressed_length_AlwaysFill(c, available) ==
    AsU32(available)

cli_compressed_length_NoEqualRule(c, available) ==
    IF c.c_len > available THEN AsU32(available)
    ELSE c.c_len

\* cli: the if/else-if that rewrites chunks[idx].compressed_length.
cli_compressed_length(c, available) ==
    IF is_compressed(c) /\ equal_sizes(c) THEN AsU32(available)
    ELSE IF c.c_len > available THEN AsU32(available)
    ELSE c.c_len

\* cli: the "Chunk Size Correction" loop of unpack_archive.
chunk_size_correction(ch, vl) ==
    [i \in 1..Len(ch) |->
        LET sorted == sorted_indices(ch, ch[i].file_idx)
            k == PosIn(sorted, i)
            available == saturating_sub(cli_limit(ch, vl, sorted, k), ch[i].offset)
        IN  cli_compressed_length(ch[i], available)]

(***************************************************************************)
(* Reconciler inputs.                                                      *)
(***************************************************************************)
RcImpls == {"core", "legacy", "cli"}
RcOffsets == {0, 2}
RcLens == {1, 3}
RcFlags == {CHUNK_ZLIB, CHUNK_COPYCOMP}
RcVolumes == {0, 1}
\* Volume lengths: below, at and beyond the word size.
RcMainLens == {0, 1, 2, 5, U32 + 1}
RcSplitLens == {1, 4}

RcChunkRecords ==
    { Chunk(o, c, d, f, v) :
        o \in RcOffsets, c \in RcLens, d \in RcLens, f \in RcFlags, v \in RcVolumes }

RcTables == UNION { [1..n -> RcChunkRecords] : n \in 1..MaxChunks }

RcInit ==
    /\ rc_impl \in RcImpls
    /\ rc_chunks \in RcTables
    /\ \E m \in RcMainLens, s \in RcSplitLens : rc_vol = (0 :> m) @@ (1 :> s)
    /\ rc_real = <<>>
    /\ rc_pc = "loaded"

\* core: UnpackPlan::build
UnpackPlanBuild ==
    /\ rc_pc = "loaded"
    /\ rc_impl = "core"
    /\ rc_real' = calculate_chunk_sizes(rc_chunks, rc_vol)
    /\ rc_pc' = "reconciled"
    /\ UNCHANGED <<rc_impl, rc_chunks, rc_vol>>
    /\ UNCHANGED not_rc_vars

\* legacy: do_unpack up to the end of the ZSIZE correction
DoUnpackZsize ==
    /\ rc_pc = "loaded"
    /\ rc_impl = "legacy"
    /\ rc_real' = zsize_correction(rc_chunks, rc_vol)
    /\ rc_pc' = "reconciled"
    /\ UNCHANGED <<rc_impl, rc_chunks, rc_vol>>
    /\ UNCHANGED not_rc_vars

\* cli: unpack_archive up to the end of the chunk size correction
UnpackArchiveCorrection ==
    /\ rc_pc = "loaded"
    /\ rc_impl = "cli"
    /\ rc_real' = chunk_size_correction(rc_chunks, rc_vol)
    /\ rc_pc' = "reconciled"
    /\ UNCHANGED <<rc_impl, rc_chunks, rc_vol>>
    /\ UNCHANGED not_rc_vars

RcNext ==
    \/ UnpackPlanBuild
    \/ DoUnpackZsize
    \/ UnpackArchiveCorrection

SpecReconInit == RcInit /\ PxIdle /\ PkIdle /\ RtIdle /\ ExIdle /\ MdIdle /\ HdIdle /\ CdIdle

SpecRecon == SpecReconInit /\ [][RcNext]_vars

(***************************************************************************)
(* Reconciler inputs with header lengths up to 2^32 - 1 and volumes of     *)
(* 2^32 bytes and more.                                                    *)
(***************************************************************************)
RcWideLens == {1, 3, U32 - 1}
RcWideMainLens == {1, 5, U32 + 1, U32 + 5}

RcWideRecords ==
    { Chunk(o, c, 1, f, v) :
        o \in RcOffsets, c \in RcWideLens, f \in RcFlags, v \in RcVolumes }

RcWideTables == UNION { [1..n -> RcWideRecords] : n \in {1, 2} }

RcWideInit ==
    /\ rc_impl \in RcImpls
    /\ rc_chunks \in RcWideTables
    /\ \E m \in RcWideMainLens, s \in RcSplitLens : rc_vol = (0 :> m) @@ (1 :> s)
    /\ rc_real = <<>>
    /\ rc_pc = "loaded"

SpecReconWideInit == RcWideInit /\ PxIdle /\ PkIdle /\ RtIdle /\ ExIdle /\ MdIdle /\ HdIdle /\ CdIdle

SpecReconWide == SpecReconWideInit /\ [][RcNext]_vars

(***************************************************************************)
(* Output paths of extraction (host with Unix path syntax).                *)
(* A string is a sequence of one-character strings.                        *)
(***************************************************************************)
\* str.replace(from, to) for single characters
ReplaceChar(str, from, to) ==
    [i \in 1..Len(str) |-> IF str[i] = from THEN to ELSE str[i]]

\* The segments of str between occurrences of sep (empty segments kept).
RECURSIVE SplitOn(_, _, _)
SplitOn(str, sep, cur) ==
    IF str = <<>> THEN <<cur>>
    ELSE IF Head(str) = sep THEN <<cur>> \o SplitOn(Tail(str), sep, <<>>)
    ELSE SplitOn(Tail(str), sep, Append(cur, Head(str)))

Comp(k, n) == [kind |-> k, name |-> n]

\* Path::components of the segments of a path: repeated separators and
\* interior "." vanish, a leading "." of a rootless path is CurDir.
RECURSIVE ComponentsOf(_, _, _)
ComponentsOf(segs, first, rooted) ==
    IF segs = <<>> THEN <<>>
    ELSE LET seg == Head(segs)
             rest == Tail(segs)
         IN  IF seg = <<>> THEN ComponentsOf(rest, first, rooted)
             ELSE IF seg = <<".">> THEN
                 IF first /\ ~rooted
                 THEN <<Comp("CurDir", seg)>> \o ComponentsOf(rest, FALSE, rooted)
                 ELSE ComponentsOf(rest, FALSE, rooted)
             ELSE IF seg = <<".", ".">>
                 THEN <<Comp("ParentDir", seg)>> \o ComponentsOf(rest, FALSE, rooted)
             ELSE <<Comp("Normal", seg)>> \o ComponentsOf(rest, FALSE, rooted)

\* Path::new(str).components()
components(str) ==
    LET rooted == str # <<>> /\ Head(str) = "/"
    IN  (IF rooted THEN <<Comp("RootDir", <<"/">>)>> ELSE <<>>)
        \o ComponentsOf(SplitOn(str, "/", <<>>), TRUE, rooted)

\* PathBuf::push: an absolute argument replaces the path.
push(path, arg) ==
    IF arg # <<>> /\ Head(arg) = "/" THEN arg
    ELSE IF path = <<>> \/ path[Len(path)] = "/" THEN path \o arg
    ELSE path \o <<"/">> \o arg

\* The first component sanitize_path rejects, if any.
RECURSIVE FirstRejected(_)
FirstRejected(comps) ==
    IF comps = <<>> THEN "none"
    ELSE IF Head(comps).kind \in {"ParentDir", "Prefix"} THEN Head(comps).kind
    ELSE FirstRejected(Tail(comps))

\* legacy: sanitize_path, as the components joined below the base.
sanitize_path(rel_path_str) ==
    LET comps == components(ReplaceChar(rel_path_str, "\\", "/"))
        safe == SelectSeq(comps, LAMBDA c : c.kind = "Normal")
    IN  IF FirstRejected(comps) # "none"
            THEN [ok |-> FALSE, err |-> "Security", path |-> <<>>]
        ELSE IF safe = <<>> THEN [ok |-> FALSE, err |-> "Security", path |-> <<>>]
        ELSE [ok |-> TRUE, err |-> "none", path |-> safe]

\* legacy: full_raw_path of do_unpack.
legacy_full_raw_path(raw_dir, fname) ==
    IF raw_dir = <<".">> \/ raw_dir = <<>> THEN fname
    ELSE raw_dir \o <<"/">> \o fname

\* core: path_buf of UnpackPlan::extract.
core_path_buf(raw_dir, fname) ==
    IF raw_dir # <<".">> /\ raw_dir # <<>> THEN push(raw_dir, fname)
    ELSE fname

\* core: to_native_path, the separators made the host's.
to_native_path(path) == ReplaceChar(path, "\\", "/")

PxChars == {"a", ".", "/", "\\"}
MaxNameLen == 3
PxNames == UNION { [1..n -> PxChars] : n \in 1..MaxNameLen }
PxDirs == { <<".">>, <<>>, <<"a">>, <<".", ".">>, <<"a", "\\", ".", ".">>, <<"a", "\\", "a">> }

PxInit ==
    /\ px_impl \in {"legacy", "core"}
    /\ px_dir \in PxDirs
    /\ px_fname \in PxNames
    /\ px_pc = "start"
    /\ px_path = <<>>
    /\ px_err = "none"

\* legacy: the per-file closure of do_unpack up to File::create, path accepted.
LegacyCreateFile ==
    /\ px_pc = "start"
    /\ px_impl = "legacy"
    /\ LET r == sanitize_path(legacy_full_raw_path(px_dir, px_fname))
       IN  /\ r.ok
           /\ px_path' = r.path
           /\ px_pc' = "created"
           /\ px_err' = "none"
    /\ UNCHANGED <<px_impl, px_dir, px_fname>>
    /\ UNCHANGED not_px_vars

\* legacy: the per-file closure of do_unpack, sanitize_path returned Err.
LegacyRejectFile ==
    /\ px_pc = "start"
    /\ px_impl = "legacy"
    /\ LET r == sanitize_path(legacy_full_raw_path(px_dir, px_fname))
       IN  /\ ~r.ok
           /\ px_path' = <<>>
           /\ px_pc' = "error"
           /\ px_err' = r.err
    /\ UNCHANGED <<px_impl, px_dir, px_fname>>
    /\ UNCHANGED not_px_vars

\* core: the per-file closure of UnpackPlan::extract up to sink.create_file.
CoreCreateFile ==
    /\ px_pc = "start"
    /\ px_impl = "core"
    /\ px_path' = components(to_native_path(core_path_buf(px_dir, px_fname)))
    /\ px_pc' = "created"
    /\ px_err' = "none"
    /\ UNCHANGED <<px_impl, px_dir, px_fname>>
    /\ UNCHANGED not_px_vars

PxNext ==
    \/ LegacyCreateFile
    \/ LegacyRejectFile
    \/ CoreCreateFile

SpecPathInit == PxInit /\ RcIdle /\ PkIdle /\ RtIdle /\ ExIdle /\ MdIdle /\ HdIdle /\ CdIdle

SpecPath == SpecPathInit /\ [][PxNext]_vars

(***************************************************************************)
(* Packing: the config, the header layout and the chunk pipeline.          *)
(* legacy: do_pack (src/src/pack.rs); cli: pack_archive (src/cli/src/      *)
(* main.rs).  Payloads are kept by length, strings as character sequences. *)
(***************************************************************************)
\* Most chunks a packed config declares.
MaxPackChunks == 3
\* rayon::current_num_threads()
Workers == 2

RECURSIVE SeqSum(_)
SeqSum(seq) ==
    IF seq = <<>> THEN 0 ELSE Head(seq) + SeqSum(Tail(seq))

\* A string with its null terminator.
StrBytes(str) == Len(str) + 1

\* write_all(s) + write_u8(0) for each string of a list
StringsBytes(strs) == SeqSum([i \in 1..Len(strs) |-> StrBytes(strs[i])])

RECURSIVE StringSetBytes(_)
StringSetBytes(set) ==
    IF set = {} THEN 0
    ELSE LET x == CHOOSE y \in set : TRUE IN StrBytes(x) + StringSetBytes(set \ {x})

ChunkDef(id, d_len, flags, vol) ==
    [id |-> id, offset |-> 0, size_compressed |-> 0, size_decompressed |-> d_len,
     flags |-> flags, archive_file_index |-> vol]

FileEntry(filename, directory, chunks, exists) ==
    [filename |-> filename, directory |-> directory, chunks |-> chunks,
     exists |-> exists]

\* legacy: has_dz_chunk
has_dz_chunk(cfg) ==
    \E i \in 1..Len(cfg.chunks) : HasBit(cfg.chunks[i].flags, CHUNK_DZ)

\* legacy: the keys of chunk_map_def
chunk_map_def(cfg) == { cfg.chunks[i].id : i \in 1..Len(cfg.chunks) }

\* legacy: the keys of chunk_source_map once every file is indexed
chunk_source_map(cfg) ==
    UNION { { cfg.files[f].chunks[k] : k \in 1..Len(cfg.files[f].chunks) } :
            f \in 1..Len(cfg.files) }

\* legacy: the error of the indexing loop, if it returns one
index_error(cfg) ==
    IF \E f \in 1..Len(cfg.files) :
           \/ ~cfg.files[f].exists
           \/ \E k \in 1..Len(cfg.files[f].chunks) :
                  cfg.files[f].chunks[k] \notin chunk_map_def(cfg)
    THEN "Config" ELSE "none"

\* legacy: a directory as entered into unique_dirs
unique_dir_key(d) ==
    IF d = <<>> \/ d = <<".">> THEN <<".">> ELSE ReplaceChar(d, "\\", "/")

\* legacy: sorted_dirs without its first entry "."
sorted_dirs_tail(cfg) ==
    { unique_dir_key(cfg.files[f].directory) : f \in 1..Len(cfg.files) } \ { <<".">> }

\* legacy: the positions of header_buffer as the blocks are appended
header_buffer(cfg) ==
    LET p_settings == 4 + 2 + 2 + 1
        p_names == p_settings
                   + StringsBytes([f \in 1..Len(cfg.files) |-> cfg.files[f].filename])
        p_dirs == p_names + StringSetBytes(sorted_dirs_tail(cfg))
        p_map == p_dirs
                 + SeqSum([f \in 1..Len(cfg.files) |->
                              2 + 2 * Len(cfg.files[f].chunks) + 2])
        p_counts == p_map + 2 + 2
        p_table == p_counts + 16 * Len(cfg.chunks)
        p_splits == p_table + StringsBytes(cfg.archive_files)
        p_range == p_splits + (IF has_dz_chunk(cfg) THEN 10 ELSE 0)
    IN  [chunk_table_start |-> p_counts, len |-> p_range,
         header_size |-> AsU32(p_range)]

\* sort_by_key(|c| c.id), stable
RECURSIVE InsertById(_, _)
InsertById(sorted, c) ==
    IF sorted = <<>> THEN <<c>>
    ELSE IF c.id < Head(sorted).id THEN <<c>> \o sorted
    ELSE <<Head(sorted)>> \o InsertById(Tail(sorted), c)

RECURSIVE SortById(_, _)
SortById(chunks, acc) ==
    IF chunks = <<>> THEN acc
    ELSE SortById(Tail(chunks), InsertById(acc, Head(chunks)))

sorted_chunks_def(cfg) == SortById(cfg.chunks, <<>>)

\* legacy: building the jobs fails on a chunk no file lists
jobs_error(cfg) ==
    IF \E i \in 1..Len(cfg.chunks) : cfg.chunks[i].id \notin chunk_source_map(cfg)
    THEN "SourceMapMissing" ELSE "none"

channel_bound == Workers * 4

Extent(vol, start, len, kind, idx) ==
    [vol |-> vol, start |-> start, len |-> len, kind |-> kind, idx |-> idx]

(***************************************************************************)
(* Configs handed to do_pack.                                              *)
(***************************************************************************)
PkLens == {0, 1, U32 - 1}
PkResults == {[ok |-> TRUE, len |-> l] : l \in PkLens} \cup {[ok |-> FALSE, len |-> 0]}

PkIdOrders(n) == { [i \in 1..n |-> i - 1], [i \in 1..n |-> n - i] }

\* How n chunks may be spread over the main volume and split 1.
PkVolumePatterns(n) ==
    { [i \in 1..n |-> 0], [i \in 1..n |-> 1], [i \in 1..n |-> i % 2],
      [i \in 1..n |-> IF i = 1 THEN 0 ELSE 1] }

PkChunkLists ==
    UNION { { [i \in 1..n |->
                 ChunkDef(ord[i], 1,
                          IF i = 1 /\ ord[1] # 0 THEN CHUNK_DZ ELSE CHUNK_ZLIB,
                          vol[i])] :
              ord \in PkIdOrders(n), vol \in PkVolumePatterns(n) } :
            n \in 1..MaxPackChunks }

\* How the files of a config may list n chunk ids.
PkFileLists(n) ==
    { <<FileEntry(<<"a">>, <<>>, [i \in 1..n |-> i - 1], TRUE)>>,
      [i \in 1..n |->
          FileEntry(<<"a">>, IF i = 1 THEN <<".">> ELSE <<"d", "\\", "e">>,
                    <<i - 1>>, TRUE)],
      <<FileEntry(<<"a", "b">>, <<"d">>, [i \in 1..(n - 1) |-> i - 1], TRUE)>>,
      <<FileEntry(<<"a">>, <<>>, [i \in 1..(n + 1) |-> i - 1], TRUE)>>,
      <<FileEntry(<<"a">>, <<>>, [i \in 1..n |-> i - 1], FALSE)>> }

PkLegacyConfigs ==
    { [files |-> fl, chunks |-> cl, archive_files |-> af] :
      cl \in PkChunkLists, af \in { <<>>, << <<"s">> >> },
      fl \in UNION { PkFileLists(n) : n \in 1..MaxPackChunks } }

PkLegacyInit ==
    /\ pk_impl = "legacy"
    /\ pk_cfg \in { c \in PkLegacyConfigs : c.files \in PkFileLists(Len(c.chunks)) }
    /\ pk_pc = "start"
    /\ pk_err = "none"
    /\ pk_header = <<>>
    /\ pk_table = <<>>
    /\ pk_job = <<>>
    /\ pk_res = <<>>
    /\ pk_chan = <<>>
    /\ pk_buf = {}
    /\ pk_next = 0
    /\ pk_wr = "idle"
    /\ pk_off = <<>>
    /\ pk_pos = <<>>
    /\ pk_log = <<>>
    /\ pk_written = <<>>
    /\ pk_reordered = FALSE

\* legacy: do_pack up to the spawn of the writer thread.
DoPackPrepare ==
    /\ pk_pc = "start"
    /\ pk_impl = "legacy"
    /\ LET h == header_buffer(pk_cfg)
           vols == 0..Len(pk_cfg.archive_files)
           n == Len(pk_cfg.chunks)
       IN  IF index_error(pk_cfg) # "none" THEN
               /\ pk_pc' = "err"
               /\ pk_err' = index_error(pk_cfg)
               /\ UNCHANGED <<pk_header, pk_table, pk_job, pk_res, pk_wr, pk_off,
                              pk_pos, pk_log>>
           ELSE
               /\ pk_header' = h
               /\ pk_log' = <<Extent(0, 0, h.len, "header", 0)>>
               /\ pk_off' = [v \in vols |-> IF v = 0 THEN h.header_size ELSE 0]
               /\ pk_pos' = [v \in vols |-> IF v = 0 THEN h.len ELSE 0]
               /\ pk_table' = sorted_chunks_def(pk_cfg)
               /\ IF jobs_error(pk_cfg) # "none" THEN
                      /\ pk_pc' = "err"
                      /\ pk_err' = jobs_error(pk_cfg)
                      /\ UNCHANGED <<pk_job, pk_res, pk_wr>>
                  ELSE
                      /\ pk_pc' = "streaming"
                      /\ pk_err' = "none"
                      /\ pk_job' = [j \in 0..(n - 1) |-> "todo"]
                      /\ pk_res' = [j \in 0..(n - 1) |-> [ok |-> FALSE, len |-> 0]]
                      /\ pk_wr' = "running"
    /\ UNCHANGED <<pk_impl, pk_cfg, pk_chan, pk_buf, pk_next, pk_written, pk_reordered>>
    /\ UNCHANGED not_pk_vars

(***************************************************************************)
(* legacy: the producers (rayon par_iter over the jobs) and the channel.   *)
(***************************************************************************)
PkTotal == Len(pk_table)
PkJobs == 0..(PkTotal - 1)

\* One producer runs the compression closure of job j.
ProducerCompress(j) ==
    /\ pk_pc = "streaming"
    /\ pk_impl = "legacy"
    /\ pk_job[j] = "todo"
    /\ Cardinality({ k \in PkJobs : pk_job[k] = "ready" }) < Workers
    /\ \E r \in PkResults : pk_res' = [pk_res EXCEPT ![j] = r]
    /\ pk_job' = [pk_job EXCEPT ![j] = "ready"]
    /\ UNCHANGED <<pk_impl, pk_cfg, pk_pc, pk_err, pk_header, pk_table, pk_chan,
                   pk_buf, pk_next, pk_wr, pk_off, pk_pos, pk_log, pk_written,
                   pk_reordered>>
    /\ UNCHANGED not_pk_vars

receiver_alive_Always(wr) == TRUE

\* rx lives in the writer thread's closure: it is dropped when the thread
\* returns, and a send, blocked or not, then fails.
receiver_alive(wr) == wr = "running"

\* let _ = s.send((job.chunk_idx, res)): blocks while the channel is full,
\* returns at once (the error ignored) when the receiver is gone.
ProducerSend(j) ==
    /\ pk_pc = "streaming"
    /\ pk_impl = "legacy"
    /\ pk_job[j] = "ready"
    /\ IF receiver_alive(pk_wr)
       THEN /\ Len(pk_chan) < channel_bound
            /\ pk_chan' = Append(pk_chan, j)
       ELSE pk_chan' = pk_chan
    /\ pk_job' = [pk_job EXCEPT ![j] = "done"]
    /\ UNCHANGED <<pk_impl, pk_cfg, pk_pc, pk_err, pk_header, pk_table, pk_res,
                   pk_buf, pk_next, pk_wr, pk_off, pk_pos, pk_log, pk_written,
                   pk_reordered>>
    /\ UNCHANGED not_pk_vars

(***************************************************************************)
(* legacy: the writer thread.                                              *)
(***************************************************************************)
in_order_Always(idx, next_idx) == TRUE

\* if idx == next_idx
in_order(idx, next_idx) == idx = next_idx

\* "Write Logic": the buffer that came as position idx is written as the
\* payload of sorted_chunks_def[next_idx].  An overflowing += wraps in a
\* release build and panics in a debug build.
WriteLogic(idx) ==
    LET c_def == pk_table[pk_next + 1]
        vol == c_def.archive_file_index
        len == pk_res[idx].len
    IN  IF vol \notin DOMAIN pk_off THEN
            /\ pk_wr' = "err"
            /\ pk_err' = "Config"
            /\ UNCHANGED <<pk_table, pk_next, pk_off, pk_pos, pk_log, pk_written>>
        ELSE
            LET current_pos == pk_off[vol]
                size_compressed == AsU32(len)
                sum == current_pos + size_compressed
            IN  /\ pk_log' = Append(pk_log, Extent(vol, pk_pos[vol], len, "payload", idx))
                /\ pk_pos' = [pk_pos EXCEPT ![vol] = @ + len]
                /\ pk_written' = Append(pk_written, idx)
                /\ pk_table' = [pk_table EXCEPT ![pk_next + 1] =
                                   [@ EXCEPT !.offset = current_pos,
                                             !.size_compressed = size_compressed]]
                /\ \E build \in IF sum < U32 THEN {"any"} ELSE {"release", "debug"} :
                       IF build = "debug" THEN
                           /\ pk_wr' = "panic"
                           /\ pk_err' = "WriterPanicked"
                           /\ UNCHANGED <<pk_off, pk_next>>
                       ELSE
                           /\ pk_off' = [pk_off EXCEPT ![vol] = AsU32(sum)]
                           /\ pk_next' = pk_next + 1
                           /\ UNCHANGED <<pk_wr, pk_err>>

buffered_Never(next_idx, buffer) == FALSE

\* buffer.remove(&next_idx) is Some: the reorder buffer is looked at before
\* the channel.
buffered(next_idx, buffer) == next_idx \in buffer

\* Every Sender is dropped: each job's closure has sent or has unwound.
PkSendersGone == \A j \in PkJobs : pk_job[j] \in {"done", "lost"}

\* One turn of the loop that finds next_idx in the reorder buffer.
WriterTakeBuffered ==
    /\ pk_pc = "streaming"
    /\ pk_impl = "legacy"
    /\ pk_wr = "running"
    /\ pk_next < PkTotal
    /\ buffered(pk_next, pk_buf)
    /\ pk_buf' = pk_buf \ {pk_next}
    /\ WriteLogic(pk_next)
    /\ UNCHANGED <<pk_impl, pk_cfg, pk_pc, pk_header, pk_job, pk_res, pk_chan,
                   pk_reordered>>
    /\ UNCHANGED not_pk_vars

recv_failed_Never(res) == FALSE

\* let chunk_data = res?: the writer returns the error a producer sent.
recv_failed(res) == ~res.ok

\* One turn of the loop that waits in rx.recv(): recv returns Err only
\* when the channel is empty and every sender is gone.
WriterRecv ==
    /\ pk_pc = "streaming"
    /\ pk_impl = "legacy"
    /\ pk_wr = "running"
    /\ pk_next < PkTotal
    /\ ~buffered(pk_next, pk_buf)
    /\ \/ pk_chan # <<>>
       \/ PkSendersGone
    /\ IF pk_chan = <<>> THEN
           /\ pk_wr' = "err"
           /\ pk_err' = "Disconnected"
           /\ UNCHANGED <<pk_chan, pk_reordered, pk_buf, pk_table, pk_next, pk_off,
                          pk_pos, pk_log, pk_written>>
       ELSE
           LET idx == Head(pk_chan)
           IN  /\ pk_chan' = Tail(pk_chan)
               /\ pk_reordered' = (pk_reordered \/ (pk_res[idx].ok /\ idx # pk_next))
               /\ IF recv_failed(pk_res[idx]) THEN
                      /\ pk_wr' = "err"
                      /\ pk_err' = "Codec"
                      /\ UNCHANGED <<pk_buf, pk_table, pk_next, pk_off, pk_pos,
                                     pk_log, pk_written>>
                  ELSE IF in_order(idx, pk_next) THEN
                      /\ WriteLogic(idx)
                      /\ UNCHANGED pk_buf
                  ELSE
                      /\ pk_buf' = pk_buf \cup {idx}
                      /\ UNCHANGED <<pk_wr, pk_err, pk_table, pk_next, pk_off,
                                     pk_pos, pk_log, pk_written>>
    /\ UNCHANGED <<pk_impl, pk_cfg, pk_pc, pk_header, pk_job, pk_res>>
    /\ UNCHANGED not_pk_vars

\* The loop ends: the split writers are flushed and the thread returns Ok.
WriterFinish ==
    /\ pk_pc = "streaming"
    /\ pk_impl = "legacy"
    /\ pk_wr = "running"
    /\ pk_next = PkTotal
    /\ pk_wr' = "ok"
    /\ UNCHANGED <<pk_impl, pk_cfg, pk_pc, pk_err, pk_header, pk_table, pk_job,
                   pk_res, pk_chan, pk_buf, pk_next, pk_off, pk_pos, pk_log,
                   pk_written, pk_reordered>>
    /\ UNCHANGED not_pk_vars

\* legacy: for_each_with has returned; join the writer, then back-patch the
\* chunk table at chunk_table_start.
DoPackJoin ==
    /\ pk_pc = "streaming"
    /\ pk_impl = "legacy"
    /\ \A j \in PkJobs : pk_job[j] = "done"
    /\ pk_wr # "running"
    /\ IF pk_wr = "ok" THEN
           /\ pk_log' = Append(pk_log,
                  Extent(0, pk_header.chunk_table_start, 16 * Len(pk_table), "table", 0))
           /\ pk_pos' = [pk_pos EXCEPT ![0] =
                             pk_header.chunk_table_start + 16 * Len(pk_table)]
           /\ pk_pc' = "ok"
       ELSE
           /\ pk_pc' = "err"
           /\ UNCHANGED <<pk_log, pk_pos>>
    /\ UNCHANGED <<pk_impl, pk_cfg, pk_err, pk_header, pk_table, pk_job, pk_res,
                   pk_chan, pk_buf, pk_next, pk_wr, pk_off, pk_written, pk_reordered>>
    /\ UNCHANGED not_pk_vars

(***************************************************************************)
(* cli: pack_archive.  One chunk per file; the payloads are written first, *)
(* from the predicted header_size on, and the header last.                 *)
(***************************************************************************)
\* Most files a config of pack_archive lists.
MaxCliFiles == 4

CliFile(file_name, parent, compression, vol) ==
    [file_name |-> file_name, parent |-> parent, compression |-> compression,
     archive_file_index |-> vol]

\* compress_data: the flags it returns for a method
compress_data_flags(method) ==
    CASE method = "Copy" -> CHUNK_COPYCOMP
      [] method = "Zero" -> CHUNK_ZERO
      [] method = "Zlib" -> CHUNK_ZLIB
      [] method = "Bzip" -> CHUNK_BZIP
      [] method = "Lzma" -> CHUNK_LZMA
      [] OTHER -> CHUNK_COPYCOMP

\* cli: a file's parent as entered into directories
cli_parent_str(f) == ReplaceChar(f.parent, "/", "\\")

\* cli: directories, the distinct non-root parents in order of first use
RECURSIVE cli_directories(_, _)
cli_directories(files, acc) ==
    IF files = <<>> THEN acc
    ELSE LET d == cli_parent_str(Head(files))
         IN  IF d = <<>> \/ d = <<".">> \/ \E k \in 1..Len(acc) : acc[k] = d
             THEN cli_directories(Tail(files), acc)
             ELSE cli_directories(Tail(files), Append(acc, d))

\* cli: all_strings
all_strings(cfg) ==
    [f \in 1..Len(cfg.files) |-> cfg.files[f].file_name]
        \o cli_directories(cfg.files, <<>>)

\* cli: the pre-calculated header_size ("assuming 1 chunk per file")
cli_header_size(cfg) ==
    LET num_user_files == AsU16(Len(cfg.files))
        num_chunks == num_user_files
    IN  9 + StringsBytes(all_strings(cfg))
          + num_user_files * 6
          + 4
          + num_chunks * 16
          + (IF Len(cfg.archives) > 1 THEN StringsBytes(Tail(cfg.archives)) ELSE 0)

\* cli: the bytes DzipWriter writes for the header blocks
cli_header_written(cfg, chunk_map, chunks) ==
    (4 + 2 + 2 + 1)
      + StringsBytes(all_strings(cfg))
      + SeqSum([k \in 1..Len(chunk_map) |-> 2 + 2 * Len(chunk_map[k]) + 2])
      + (2 + 2)
      + SeqSum([k \in 1..Len(chunks) |-> 4 + 4 + 4 + 2 + 2])
      + (IF Len(cfg.archives) > 1 THEN StringsBytes(Tail(cfg.archives)) ELSE 0)
      + (IF \E k \in 1..Len(chunks) : HasBit(chunks[k].flags, CHUNK_DZ)
         THEN 10 ELSE 0)

PkCliFirstFiles ==
    { [file_name |-> <<"a">>, parent |-> <<>>, compression |-> "Copy"],
      [file_name |-> <<"a">>, parent |-> <<"d">>, compression |-> "Dz"],
      [file_name |-> <<"a">>, parent |-> <<".">>, compression |-> "Zero"],
      [file_name |-> <<>>, parent |-> <<>>, compression |-> "Copy"] }

PkCliConfigs ==
    UNION { { [files |-> [i \in 1..n |->
                            IF i = 1
                            THEN CliFile(first.file_name, first.parent,
                                         first.compression, vol[i])
                            ELSE CliFile(<<"b">>, <<"d", "/", "e">>, "Zlib", vol[i])],
               archives |-> ar] :
              first \in PkCliFirstFiles, vol \in PkVolumePatterns(n),
              ar \in { <<>>, << <<"m">> >>, << <<"m">>, <<"s">> >> } } :
            n \in 1..MaxCliFiles }

PkCliInit ==
    /\ pk_impl = "cli"
    /\ pk_cfg \in PkCliConfigs
    /\ pk_pc = "start"
    /\ pk_err = "none"
    /\ pk_header = <<>>
    /\ pk_table = <<>>
    /\ pk_job = <<>>
    /\ pk_res = <<>>
    /\ pk_chan = <<>>
    /\ pk_buf = {}
    /\ pk_next = 0
    /\ pk_wr = "idle"
    /\ pk_off = <<>>
    /\ pk_pos = <<>>
    /\ pk_log = <<>>
    /\ pk_written = <<>>
    /\ pk_reordered = FALSE

\* cli: pack_archive up to the seek of volume 0 to header_size.
PackArchivePrepare ==
    /\ pk_pc = "start"
    /\ pk_impl = "cli"
    /\ IF \E f \in 1..Len(pk_cfg.files) : pk_cfg.files[f].file_name = <<>>
          \/ pk_cfg.archives = <<>>
       THEN /\ pk_pc' = "err"
            /\ pk_err' = "InvalidInput"
            /\ UNCHANGED <<pk_header, pk_pos>>
       ELSE /\ pk_pc' = "compressing"
            /\ pk_err' = "none"
            /\ pk_header' = [header_size |-> cli_header_size(pk_cfg)]
            /\ pk_pos' = [v \in 0..(Len(pk_cfg.archives) - 1) |->
                             IF v = 0 THEN cli_header_size(pk_cfg) ELSE 0]
    /\ UNCHANGED <<pk_impl, pk_cfg, pk_table, pk_job, pk_res, pk_chan, pk_buf,
                   pk_next, pk_wr, pk_off, pk_log, pk_written, pk_reordered>>
    /\ UNCHANGED not_pk_vars

\* cli: the parallel compression phase, collected in file order; the first
\* failure is returned.
PackArchiveCompress ==
    /\ pk_pc = "compressing"
    /\ pk_impl = "cli"
    /\ \E res \in [1..Len(pk_cfg.files) -> PkResults] :
           /\ \A f \in 1..Len(pk_cfg.files) :
                  pk_cfg.files[f].compression = "Zero" /\ res[f].ok => res[f].len = 0
           /\ IF \E f \in 1..Len(pk_cfg.files) : ~res[f].ok
              THEN /\ pk_pc' = "err"
                   /\ pk_err' = "Io"
                   /\ UNCHANGED pk_res
              ELSE /\ pk_pc' = "writing"
                   /\ pk_err' = "none"
                   /\ pk_res' = res
    /\ UNCHANGED <<pk_impl, pk_cfg, pk_header, pk_table, pk_job, pk_chan, pk_buf,
                   pk_next, pk_wr, pk_off, pk_pos, pk_log, pk_written, pk_reordered>>
    /\ UNCHANGED not_pk_vars

\* cli: one turn of the sequential write loop.
PackArchiveWriteChunk ==
    /\ pk_pc = "writing"
    /\ pk_impl = "cli"
    /\ pk_next < Len(pk_cfg.files)
    /\ LET i == pk_next + 1
           chunk_id == Len(pk_table)
           archive_id == pk_cfg.files[i].archive_file_index
           len == pk_res[i].len
       IN  IF archive_id \notin DOMAIN pk_pos THEN
               /\ pk_pc' = "err"
               /\ pk_err' = "NotFound"
               /\ UNCHANGED <<pk_table, pk_next, pk_pos, pk_log, pk_written>>
           ELSE
               /\ pk_log' = Append(pk_log,
                                   Extent(archive_id, pk_pos[archive_id], len, "payload", i - 1))
               /\ pk_pos' = [pk_pos EXCEPT ![archive_id] = @ + len]
               /\ pk_table' = Append(pk_table,
                      [id |-> chunk_id,
                       offset |-> AsU32(pk_pos[archive_id]),
                       size_compressed |-> AsU32(len),
                       flags |-> compress_data_flags(pk_cfg.files[i].compression),
                       archive_file_index |-> archive_id])
               /\ pk_written' = Append(pk_written, i - 1)
               /\ pk_next' = pk_next + 1
               /\ UNCHANGED <<pk_pc, pk_err>>
    /\ UNCHANGED <<pk_impl, pk_cfg, pk_header, pk_job, pk_res, pk_chan, pk_buf,
                   pk_wr, pk_off, pk_reordered>>
    /\ UNCHANGED not_pk_vars

\* cli: seek(0) and the header blocks written through DzipWriter.
PackArchiveWriteHeader ==
    /\ pk_pc = "writing"
    /\ pk_impl = "cli"
    /\ pk_next = Len(pk_cfg.files)
    /\ LET chunk_map == [k \in 1..Len(pk_table) |-> <<pk_table[k].id>>]
           written == cli_header_written(pk_cfg, chunk_map, pk_table)
       IN  /\ pk_log' = Append(pk_log, Extent(0, 0, written, "header", 0))
           /\ pk_pos' = [pk_pos EXCEPT ![0] = written]
    /\ pk_pc' = "ok"
    /\ UNCHANGED <<pk_impl, pk_cfg, pk_err, pk_header, pk_table, pk_job, pk_res,
                   pk_chan, pk_buf, pk_next, pk_wr, pk_off, pk_written, pk_reordered>>
    /\ UNCHANGED not_pk_vars

PkNext ==
    \/ DoPackPrepare
    \/ \E j \in PkJobs : ProducerCompress(j)
    \/ \E j \in PkJobs : ProducerSend(j)
    \/ WriterTakeBuffered
    \/ WriterRecv
    \/ WriterFinish
    \/ DoPackJoin
    \/ PackArchivePrepare
    \/ PackArchiveCompress
    \/ PackArchiveWriteChunk
    \/ PackArchiveWriteHeader

SpecPackInit == (PkLegacyInit \/ PkCliInit) /\ RcIdle /\ PxIdle /\ RtIdle /\ ExIdle /\ MdIdle /\ HdIdle /\ CdIdle

SpecPack == SpecPackInit /\ [][PkNext]_vars

\* The steps of the producers, of the writer thread and of the join.
PkPipeline ==
    \/ \E j \in PkJobs : ProducerCompress(j)
    \/ \E j \in PkJobs : ProducerSend(j)
    \/ WriterTakeBuffered
    \/ WriterRecv
    \/ WriterFinish
    \/ DoPackJoin

\* The threads are scheduled: while one of them can step, a step is taken.
SpecPackFair == SpecPack /\ WF_vars(PkPipeline)

(***************************************************************************)
(* legacy: runs of do_pack in which a producer's closure panics.  The      *)
(* closure of job j unwinds before its send, and with it the rest of the   *)
(* sequential run of jobs that the same rayon task was folding; the other  *)
(* tasks go on.  for_each_with re-raises the panic in do_pack once every   *)
(* task has ended, and the writer thread is never joined.                  *)
(***************************************************************************)
ProducerPanic(j) ==
    /\ pk_pc = "streaming"
    /\ pk_impl = "legacy"
    /\ j \in PkJobs
    /\ pk_job[j] = "todo"
    /\ \E rest \in SUBSET { k \in PkJobs : pk_job[k] = "todo" /\ k > j } :
          pk_job' = [k \in PkJobs |-> IF k = j \/ k \in rest THEN "lost" ELSE pk_job[k]]
    /\ UNCHANGED <<pk_impl, pk_cfg, pk_pc, pk_err, pk_header, pk_table, pk_res,
                   pk_chan, pk_buf, pk_next, pk_wr, pk_off, pk_pos, pk_log,
                   pk_written, pk_reordered>>
    /\ UNCHANGED not_pk_vars

\* The panic reaches do_pack: it unwinds whatever the writer thread is doing.
DoPackUnwind ==
    /\ pk_pc = "streaming"
    /\ pk_impl = "legacy"
    /\ PkSendersGone
    /\ \E j \in PkJobs : pk_job[j] = "lost"
    /\ pk_pc' = "panic"
    /\ UNCHANGED <<pk_impl, pk_cfg, pk_err, pk_header, pk_table, pk_job, pk_res,
                   pk_chan, pk_buf, pk_next, pk_wr, pk_off, pk_pos, pk_log,
                   pk_written, pk_reordered>>
    /\ UNCHANGED not_pk_vars

PkLossyNext ==
    \/ PkNext
    \/ \E j \in PkJobs : ProducerPanic(j)
    \/ DoPackUnwind

SpecPackLossy == SpecPackInit /\ [][PkLossyNext]_vars

(***************************************************************************)
(* legacy: do_pack on a config with more chunks than the channel and the   *)
(* workers can hold between them.  Of the orders in which rayon may hand   *)
(* the jobs to its workers these runs keep one family: one worker takes    *)
(* position 0, a second takes the other positions one after the other,     *)
(* and a compression gives one byte, or fails for the first chunk.  How    *)
(* long a job takes, when it sends and when the writer receives stay free. *)
(***************************************************************************)
LongPackChunks == channel_bound + Workers + 2

PkLongConfig ==
    [files |-> <<FileEntry(<<"a">>, <<>>, [i \in 1..LongPackChunks |-> i - 1], TRUE)>>,
     chunks |-> [i \in 1..LongPackChunks |-> ChunkDef(i - 1, 1, CHUNK_ZLIB, 0)],
     archive_files |-> <<>>]

PkLongInit ==
    /\ pk_impl = "legacy"
    /\ pk_cfg = PkLongConfig
    /\ pk_pc = "start"
    /\ pk_err = "none"
    /\ pk_header = <<>>
    /\ pk_table = <<>>
    /\ pk_job = <<>>
    /\ pk_res = <<>>
    /\ pk_chan = <<>>
    /\ pk_buf = {}
    /\ pk_next = 0
    /\ pk_wr = "idle"
    /\ pk_off = <<>>
    /\ pk_pos = <<>>
    /\ pk_log = <<>>
    /\ pk_written = <<>>
    /\ pk_reordered = FALSE

\* The source of the first chunk may be unreadable; the others compress.
PkLongResults(j) ==
    IF j = 0 THEN {[ok |-> TRUE, len |-> 1], [ok |-> FALSE, len |-> 0]}
    ELSE {[ok |-> TRUE, len |-> 1]}

\* Job j is the first not yet taken, and no job but that of position 0 is
\* between its compression and its send.
PkFirstNotTaken(j) ==
    /\ \A k \in PkJobs : k < j => pk_job[k] # "todo"
    /\ \A k \in PkJobs : k > 0 => pk_job[k] # "ready"

\* The steps of the producers and of the writer thread.
PkLongPipeline ==
    \/ \E j \in PkJobs : /\ PkFirstNotTaken(j)
                         /\ ProducerCompress(j)
                         /\ pk_res'[j] \in PkLongResults(j)
    \/ \E j \in PkJobs : ProducerSend(j)
    \/ WriterTakeBuffered
    \/ WriterRecv
    \/ WriterFinish
    \/ DoPackJoin

PkLongNext ==
    \/ DoPackPrepare
    \/ PkLongPipeline

SpecPackLongInit == PkLongInit /\ RcIdle /\ PxIdle /\ RtIdle /\ ExIdle /\ MdIdle /\ HdIdle /\ CdIdle

SpecPackLong == SpecPackLongInit /\ [][PkLongNext]_vars

\* The threads of the pipeline are scheduled by the operating system: as
\* long as some thread of the pipeline can take a step, a step is taken.  A
\* send blocked on the full channel is no step until the writer receives or
\* is gone.
SpecPackLongFair == SpecPackLong /\ WF_vars(PkLongPipeline)

(***************************************************************************)
(* Round trip: legacy do_pack as one step (its writes are in position      *)
(* order whatever the producers do), then the core ArchiveMetadata::load,  *)
(* UnpackPlan::build and UnpackPlan::extract.  A byte is a pair; the       *)
(* header region of volume 0 is filled with HeaderByte.                    *)
(***************************************************************************)
\* Most chunks / files of a round-trip config.
MaxRtChunks == 2

HeaderByte == <<0, 0>>
SourceByte(f, k) == <<f, k>>
TagByte(flags) == <<-1, flags>>

RECURSIVE Fill(_, _)
Fill(byte, n) == IF n <= 0 THEN <<>> ELSE <<byte>> \o Fill(byte, n - 1)

Reverse(seq) == [i \in 1..Len(seq) |-> seq[Len(seq) + 1 - i]]

\* The codec bit of a flags value, 0 when none or more than one is set.
codec_of(flags) ==
    LET set == { b \in {CHUNK_DZ, CHUNK_ZLIB, CHUNK_BZIP, CHUNK_ZERO,
                         CHUNK_COPYCOMP, CHUNK_LZMA} : HasBit(flags, b) }
    IN  IF Cardinality(set) = 1 THEN CHOOSE b \in set : TRUE ELSE 0

\* A byte no encoder writes; a decoder fails when it reaches it.
CorruptByte == <<-2, 0>>

\* Position of the first CorruptByte of a stream, 0 when it has none.
first_corrupt(data) ==
    LET at == { i \in 1..Len(data) : data[i] = CorruptByte }
    IN  IF at = {} THEN 0 ELSE CHOOSE i \in at : \A k \in at : i <= k

\* registry.compress: COPY copies, ZERO writes nothing, ZLIB/BZIP/LZMA encode
\* (here: the codec's tag byte followed by the data reversed), anything else
\* is refused.
compress(data, flags) ==
    CASE codec_of(flags) = CHUNK_COPYCOMP ->
             [ok |-> TRUE, data |-> data, err |-> "none"]
      [] codec_of(flags) = CHUNK_ZERO ->
             [ok |-> TRUE, data |-> <<>>, err |-> "none"]
      [] codec_of(flags) \in {CHUNK_ZLIB, CHUNK_BZIP, CHUNK_LZMA} ->
             [ok |-> TRUE, data |-> <<TagByte(codec_of(flags))>> \o Reverse(data),
              err |-> "none"]
      [] OTHER -> [ok |-> FALSE, data |-> <<>>, err |-> "UnsupportedCompression"]

\* codec::decompress: the inverse, streaming into the output.  It fails on a
\* stream the codec did not write: at once when the stream does not start
\* as the codec's, or at the first corrupt byte, after it has written what
\* precedes that byte (partial).
decompress(data, flags, d_len) ==
    CASE codec_of(flags) = CHUNK_COPYCOMP ->
             [ok |-> TRUE, data |-> data, partial |-> <<>>, err |-> "none"]
      [] codec_of(flags) = CHUNK_ZERO ->
             [ok |-> TRUE, data |-> <<>>, partial |-> <<>>, err |-> "none"]
      [] codec_of(flags) \in {CHUNK_ZLIB, CHUNK_BZIP, CHUNK_LZMA} ->
             IF data = <<>> \/ Head(data) # TagByte(codec_of(flags))
             THEN [ok |-> FALSE, data |-> <<>>, partial |-> <<>>,
                   err |-> "Decompression"]
             ELSE IF first_corrupt(Tail(data)) = 0
             THEN [ok |-> TRUE, data |-> Reverse(Tail(data)), partial |-> <<>>,
                   err |-> "none"]
             ELSE [ok |-> FALSE, data |-> <<>>,
                   partial |-> SubSeq(Tail(data), 1, first_corrupt(Tail(data)) - 1),
                   err |-> "Decompression"]
      [] OTHER -> [ok |-> FALSE, data |-> <<>>, partial |-> <<>>,
                   err |-> "UnsupportedCompression"]

\* chunk_map_def.get(cid): the last definition inserted under the id
chunk_def_of(cfg, cid) ==
    LET at == { i \in 1..Len(cfg.chunks) : cfg.chunks[i].id = cid }
    IN  cfg.chunks[CHOOSE i \in at : \A k \in at : k <= i]

\* read_len of a chunk definition
read_len_of(c_def) ==
    IF HasBit(c_def.flags, CHUNK_DZ) THEN c_def.size_compressed
    ELSE c_def.size_decompressed

\* The inner loop of the indexing: the chunk ids of file f from the k-th on.
RECURSIVE IndexChunks(_, _, _, _, _)
IndexChunks(cfg, f, k, current_offset, map) ==
    IF k > Len(cfg.files[f].chunks) THEN map
    ELSE LET cid == cfg.files[f].chunks[k]
             read_len == read_len_of(chunk_def_of(cfg, cid))
             entry == [file |-> f, offset |-> current_offset, read_len |-> read_len]
         IN  IndexChunks(cfg, f, k + 1, current_offset + read_len,
                         (cid :> entry) @@ map)

\* The outer loop of the indexing: chunk_source_map with its values.
RECURSIVE IndexFiles(_, _, _)
IndexFiles(cfg, f, map) ==
    IF f > Len(cfg.files) THEN map
    ELSE IndexFiles(cfg, f + 1, IndexChunks(cfg, f, 1, 0, map))

source_map_NoSeek(cfg) ==
    LET m == IndexFiles(cfg, 1, <<>>)
    IN  [cid \in DOMAIN m |-> [m[cid] EXCEPT !.offset = 0]]

source_map(cfg) == IndexFiles(cfg, 1, <<>>)

\* The producer's read: seek to offset, take(read_len), to end of file at most.
read_chunk(content, offset, read_len) ==
    SubSeq(content, offset + 1, Min(Len(content), offset + read_len))

\* The writer's loop over the positions from i on, the buffers taken in
\* position order: volumes, running offsets and chunk table.
RECURSIVE StreamFrom(_, _, _, _, _)
StreamFrom(cfg, src, i, st, table) ==
    IF i > Len(table) \/ st.err # "none" THEN [st EXCEPT !.table = table]
    ELSE LET c_def == table[i]
             job == source_map(cfg)[c_def.id]
             res == compress(read_chunk(src[job.file], job.offset, job.read_len),
                             c_def.flags)
             vol == c_def.archive_file_index
         IN  IF ~res.ok THEN StreamFrom(cfg, src, i, [st EXCEPT !.err = "Codec"], table)
             ELSE IF vol \notin DOMAIN st.vols
                 THEN StreamFrom(cfg, src, i, [st EXCEPT !.err = "Config"], table)
             ELSE StreamFrom(cfg, src, i + 1,
                      [st EXCEPT !.vols[vol] = @ \o res.data,
                                 !.off[vol] = AsU32(@ + AsU32(Len(res.data)))],
                      [table EXCEPT ![i] =
                          [@ EXCEPT !.offset = st.off[vol],
                                    !.size_compressed = AsU32(Len(res.data))]])

\* do_pack: the archive it leaves, or the error it returns.
pack(cfg, src) ==
    LET h == header_buffer(cfg)
        vols == 0..Len(cfg.archive_files)
        st0 == [vols |-> [v \in vols |-> IF v = 0 THEN Fill(HeaderByte, h.len) ELSE <<>>],
                off |-> [v \in vols |-> IF v = 0 THEN h.header_size ELSE 0],
                err |-> "none", table |-> <<>>]
    IN  IF index_error(cfg) # "none" THEN [st0 EXCEPT !.err = index_error(cfg)]
        ELSE IF jobs_error(cfg) # "none" THEN [st0 EXCEPT !.err = jobs_error(cfg)]
        ELSE StreamFrom(cfg, src, 1, st0, sorted_chunks_def(cfg))

\* core: the bytes a reader of a volume gets after seek(offset), take(len)
read_volume(bytes, offset, len) ==
    SubSeq(bytes, offset + 1, Min(Len(bytes), offset + len))

\* core: the loop over entry.chunk_ids from the k-th id on; acc is what the
\* file's writer has received.
RECURSIVE ExtractChunks(_, _, _, _, _, _, _)
ExtractChunks(chunks, real, vols, chunk_ids, k, keep_raw, acc) ==
    IF k > Len(chunk_ids) THEN [ok |-> TRUE, data |-> acc]
    ELSE LET cid == chunk_ids[k]
         IN  IF cid + 1 \notin DOMAIN chunks
             THEN ExtractChunks(chunks, real, vols, chunk_ids, k + 1, keep_raw, acc)
             ELSE LET chunk == chunks[cid + 1]
                      raw == read_volume(vols[chunk.file_idx], chunk.offset, real[cid + 1])
                      dec == decompress(raw, chunk.flags, chunk.d_len)
                  IN  IF dec.ok
                      THEN ExtractChunks(chunks, real, vols, chunk_ids, k + 1, keep_raw,
                                         acc \o dec.data)
                      ELSE IF keep_raw
                      THEN ExtractChunks(chunks, real, vols, chunk_ids, k + 1, keep_raw,
                                         acc \o dec.partial \o raw)
                      ELSE [ok |-> FALSE, data |-> acc \o dec.partial]

(***************************************************************************)
(* Round-trip inputs.                                                      *)
(***************************************************************************)
RtIdSeqs(n) == [1..n -> 0..n]
RtSizes == {1, 2}

\* Codec and volume of the i-th chunk definition, by pattern.
RtCodecPatterns ==
    { [flags |-> [i \in 1..MaxRtChunks |-> CHUNK_COPYCOMP],
       vol |-> [i \in 1..MaxRtChunks |-> 0]],
      [flags |-> [i \in 1..MaxRtChunks |-> CHUNK_ZLIB],
       vol |-> [i \in 1..MaxRtChunks |-> i % 2]],
      [flags |-> [i \in 1..MaxRtChunks |-> IF i % 2 = 1 THEN CHUNK_LZMA ELSE CHUNK_BZIP],
       vol |-> [i \in 1..MaxRtChunks |-> 1]] }

RtChunkLists ==
    UNION { { [i \in 1..n |-> ChunkDef(ids[i], d[i], pat.flags[i], pat.vol[i])] :
              ids \in RtIdSeqs(n), d \in [1..n -> RtSizes], pat \in RtCodecPatterns } :
            n \in 1..MaxRtChunks }

RtFile(chunks) == FileEntry(<<"a">>, <<>>, chunks, TRUE)

\* How the files of a config may list the ids of its chunk definitions.
RtFileLists(ids) ==
    { <<RtFile(ids)>>,
      [i \in 1..Len(ids) |-> RtFile(<<ids[i]>>)],
      <<RtFile(Reverse(ids))>>,
      <<RtFile(ids), RtFile(ids)>>,
      <<RtFile(SubSeq(ids, 1, Len(ids) - 1))>> }

RtConfigs ==
    UNION { { [files |-> fl, chunks |-> cl, archive_files |-> af] :
              fl \in RtFileLists([i \in 1..Len(cl) |-> cl[i].id]),
              af \in { <<>>, << <<"s">> >> } } :
            cl \in RtChunkLists }

\* The decompressed sizes a file's chunk list declares, summed.
declared_len(cfg, f) ==
    SeqSum([k \in 1..Len(cfg.files[f].chunks) |->
               read_len_of(chunk_def_of(cfg, cfg.files[f].chunks[k]))])

\* By how much the source files are longer than declared: at most one is off.
RtDeltas(n) ==
    { d \in [1..n -> {-1, 0, 1}] : Cardinality({ f \in 1..n : d[f] # 0 }) <= 1 }

RtInit ==
    /\ rt_cfg \in RtConfigs
    /\ \E delta \in RtDeltas(Len(rt_cfg.files)) :
           rt_src = [f \in 1..Len(rt_cfg.files) |->
                        [k \in 1..Max(0, declared_len(rt_cfg, f) + delta[f]) |->
                            SourceByte(f, k)]]
    /\ rt_keep_raw \in BOOLEAN
    /\ rt_pc = "start"
    /\ rt_archive = <<>>
    /\ rt_meta = <<>>
    /\ rt_plan = <<>>
    /\ rt_out = <<>>
    /\ rt_err = "none"

\* legacy: do_pack on the config and its source files.
RtDoPack ==
    /\ rt_pc = "start"
    /\ LET a == pack(rt_cfg, rt_src)
       IN  IF a.err # "none"
           THEN /\ rt_pc' = "err"
                /\ rt_err' = a.err
                /\ UNCHANGED rt_archive
           ELSE /\ rt_pc' = "packed"
                /\ rt_err' = "none"
                /\ rt_archive' =
                       [vols |-> a.vols,
                        file_map |-> [f \in 1..Len(rt_cfg.files) |-> rt_cfg.files[f].chunks],
                        table |-> a.table,
                        split_file_names |-> rt_cfg.archive_files]
    /\ UNCHANGED <<rt_cfg, rt_src, rt_keep_raw, rt_meta, rt_plan, rt_out>>
    /\ UNCHANGED not_rt_vars

\* core: ArchiveMetadata::load; a raw chunk's id is its index in the table.
RtLoad ==
    /\ rt_pc = "packed"
    /\ rt_meta' =
           [map_entries |-> rt_archive.file_map,
            raw_chunks |-> [i \in 1..Len(rt_archive.table) |->
                               Chunk(rt_archive.table[i].offset,
                                     rt_archive.table[i].size_compressed,
                                     rt_archive.table[i].size_decompressed,
                                     rt_archive.table[i].flags,
                                     rt_archive.table[i].archive_file_index)],
            split_file_names |-> rt_archive.split_file_names,
            main_file_len |-> Len(rt_archive.vols[0])]
    /\ rt_pc' = "loaded"
    /\ UNCHANGED <<rt_cfg, rt_src, rt_keep_raw, rt_archive, rt_plan, rt_out, rt_err>>
    /\ UNCHANGED not_rt_vars

\* core: UnpackPlan::build.
RtBuild ==
    /\ rt_pc = "loaded"
    /\ IF \E i \in 1..Len(rt_meta.raw_chunks) :
              rt_meta.raw_chunks[i].file_idx > Len(rt_meta.split_file_names)
       THEN /\ rt_pc' = "err"
            /\ rt_err' = "Generic"
            /\ UNCHANGED rt_plan
       ELSE /\ rt_plan' = calculate_chunk_sizes(rt_meta.raw_chunks,
                               [v \in DOMAIN rt_archive.vols |->
                                   IF v = 0 THEN rt_meta.main_file_len
                                   ELSE Len(rt_archive.vols[v])])
            /\ rt_pc' = "planned"
            /\ UNCHANGED rt_err
    /\ UNCHANGED <<rt_cfg, rt_src, rt_keep_raw, rt_archive, rt_meta, rt_out>>
    /\ UNCHANGED not_rt_vars

\* core: UnpackPlan::extract over every map entry.
RtExtract ==
    /\ rt_pc = "planned"
    /\ LET res == [f \in 1..Len(rt_meta.map_entries) |->
                      ExtractChunks(rt_meta.raw_chunks, rt_plan, rt_archive.vols,
                                    rt_meta.map_entries[f], 1, rt_keep_raw, <<>>)]
       IN  IF \E f \in DOMAIN res : ~res[f].ok
           THEN /\ rt_pc' = "err"
                /\ rt_err' = "Codec"
                /\ UNCHANGED rt_out
           ELSE /\ rt_pc' = "extracted"
                /\ rt_out' = [f \in DOMAIN res |-> res[f].data]
                /\ UNCHANGED rt_err
    /\ UNCHANGED <<rt_cfg, rt_src, rt_keep_raw, rt_archive, rt_meta, rt_plan>>
    /\ UNCHANGED not_rt_vars

RtNext ==
    \/ RtDoPack
    \/ RtLoad
    \/ RtBuild
    \/ RtExtract

SpecRoundTripInit == RtInit /\ RcIdle /\ PxIdle /\ PkIdle /\ ExIdle /\ MdIdle /\ HdIdle /\ CdIdle

SpecRoundTrip == SpecRoundTripInit /\ [][RtNext]_vars

(***************************************************************************)
(* Extraction over parallel workers.  core: UnpackPlan::build and          *)
(* UnpackPlan::extract (src/core/src/unpack.rs); legacy: do_unpack         *)
(* (src/src/unpack.rs); cli: unpack_archive (src/cli/src/main.rs).  The    *)
(* files of the map are handed to the workers of the rayon pool in any     *)
(* order; one worker extracts a file from its creation to its flush.       *)
(***************************************************************************)
\* Most chunks of an archive and most files of its map.
MaxExChunks == 2
MaxExFiles == 2

ExImpls == {"core", "legacy", "cli"}
ExWorkers == 1..Workers

\* Bytes of the header region of volume 0, and decoded bytes per chunk.
ExHeaderLen == 1
ExPayloadLen == 2

\* What lies at a chunk's place in its volume: a stream its codec wrote
\* ("good"), one that is not the codec's from the first byte ("bad_head"),
\* or one that turns corrupt after a byte was decoded ("bad_mid").
ExPlain(i) == [k \in 1..ExPayloadLen |-> SourceByte(i, k)]

ExRaw(i, flags, payload) ==
    CASE payload = "bad_head" -> <<CorruptByte, SourceByte(i, 1)>>
      [] payload = "bad_mid" -> <<TagByte(codec_of(flags)), SourceByte(i, 1), CorruptByte>>
      [] OTHER -> IF codec_of(flags) \in {CHUNK_ZLIB, CHUNK_BZIP, CHUNK_LZMA}
                  THEN compress(ExPlain(i), flags).data
                  ELSE ExPlain(i)

\* The chunks that fail to decode, one per table at most.
ExFailing ==
    { [flags |-> CHUNK_ZLIB, payload |-> "bad_head"],
      [flags |-> CHUNK_ZLIB, payload |-> "bad_mid"],
      [flags |-> CHUNK_LZMA, payload |-> "bad_head"],
      [flags |-> CHUNK_DZ, payload |-> "good"] }

ExSound(i) ==
    [flags |-> IF i % 2 = 1 THEN CHUNK_ZLIB ELSE CHUNK_COPYCOMP, payload |-> "good"]

\* Codec and payload of each chunk of a table of n chunks.
ExKinds(n) ==
    { [i \in 1..n |-> ExSound(i)] } \cup
    { [i \in 1..n |-> IF i = at THEN bad ELSE ExSound(i)] : at \in 1..n, bad \in ExFailing }

\* Where the chunks lie: all in the main file, or alternating between the
\* main file and one split, which is listed or not and exists or not.
ExPlacements ==
    { [split_count |-> 0, split_present |-> FALSE, alternate |-> FALSE],
      [split_count |-> 1, split_present |-> TRUE, alternate |-> TRUE],
      [split_count |-> 1, split_present |-> FALSE, alternate |-> TRUE],
      [split_count |-> 0, split_present |-> FALSE, alternate |-> TRUE] }

ExVolumeOf(i, place) == IF place.alternate THEN (i + 1) % 2 ELSE 0

\* Offset of chunk i: right after the chunks before it in its volume.
ExOffsetOf(i, kinds, place) ==
    (IF ExVolumeOf(i, place) = 0 THEN ExHeaderLen ELSE 0) +
    SeqSum([j \in 1..(i - 1) |->
               IF ExVolumeOf(j, place) = ExVolumeOf(i, place)
               THEN Len(ExRaw(j, kinds[j].flags, kinds[j].payload)) ELSE 0])

ExTable(kinds, place) ==
    [i \in 1..Len(kinds) |->
        Chunk(ExOffsetOf(i, kinds, place),
              Len(ExRaw(i, kinds[i].flags, kinds[i].payload)),
              ExPayloadLen, kinds[i].flags, ExVolumeOf(i, place))]

RECURSIVE ExVolumeBytes(_, _, _, _)
ExVolumeBytes(kinds, place, v, i) ==
    IF i > Len(kinds) THEN <<>>
    ELSE (IF ExVolumeOf(i, place) = v
          THEN ExRaw(i, kinds[i].flags, kinds[i].payload) ELSE <<>>)
         \o ExVolumeBytes(kinds, place, v, i + 1)

ExVolumes(kinds, place) ==
    [v \in 0..place.split_count |->
        IF v = 0
        THEN [present |-> TRUE,
              bytes |-> Fill(HeaderByte, ExHeaderLen) \o ExVolumeBytes(kinds, place, 0, 1)]
        ELSE [present |-> place.split_present,
              bytes |-> IF place.split_present
                        THEN ExVolumeBytes(kinds, place, v, 1) ELSE <<>>]]

\* The chunk-id lists of the map: one chunk per file, every chunk in the
\* first file (in table order, or reversed), or an id the table lacks.
ExMaps(n, nf) ==
    { [f \in 1..nf |-> IF f <= n THEN <<f - 1>> ELSE <<>>],
      [f \in 1..nf |-> IF f = 1 THEN [k \in 1..n |-> k - 1] ELSE <<0>>],
      [f \in 1..nf |-> IF f = 1 THEN [k \in 1..n |-> n - k] ELSE <<>>],
      [f \in 1..nf |-> IF f = 1 THEN <<0, n>> ELSE <<n - 1>>] }

ExInit ==
    /\ ex_impl \in ExImpls
    /\ ex_keep_raw \in BOOLEAN
    /\ \E n \in 1..MaxExChunks, nf \in 1..MaxExFiles :
       \E kinds \in ExKinds(n), place \in ExPlacements :
          /\ ex_chunks = ExTable(kinds, place)
          /\ ex_vols = ExVolumes(kinds, place)
          /\ ex_map \in ExMaps(n, nf)
    /\ ex_real = <<>>
    /\ ex_pc = "start"
    /\ ex_todo = {}
    /\ ex_worker = [w \in ExWorkers |-> [file |-> 0, k |-> 0]]
    /\ ex_out = [f \in 1..Len(ex_map) |-> [created |-> FALSE, pieces |-> <<>>, flushed |-> FALSE]]
    /\ ex_events = <<>>
    /\ ex_err = "none"

\* Byte length of every volume a chunk refers to, as the reconcilers see it.
\* cli: file_sizes.get(&file_id).unwrap_or(&0), where a volume whose
\* metadata cannot be read has no entry.
cli_file_sizes(chunks, vols) ==
    [v \in {0} \cup { chunks[i].file_idx : i \in 1..Len(chunks) } |->
        IF v \in DOMAIN vols /\ vols[v].present THEN Len(vols[v].bytes) ELSE 0]

\* core / legacy: current_file_size of a volume, or the error that ends the
\* reconciliation (split_file_names.get(idx) / get_split_len / fs::metadata).
split_len_error(impl, chunks, vols) ==
    IF \E i \in 1..Len(chunks) : chunks[i].file_idx \notin DOMAIN vols
    THEN "Generic"
    ELSE IF \E i \in 1..Len(chunks) : ~vols[chunks[i].file_idx].present
    THEN IF impl = "legacy" THEN "SplitFileMissing" ELSE "Source"
    ELSE "none"

\* The reconciliation that precedes extraction.
ExBuild ==
    /\ ex_pc = "start"
    /\ LET lens == cli_file_sizes(ex_chunks, ex_vols)
           e == split_len_error(ex_impl, ex_chunks, ex_vols)
       IN  CASE ex_impl = "cli" ->
                   /\ ex_real' = chunk_size_correction(ex_chunks, lens)
                   /\ ex_pc' = "planned"
                   /\ UNCHANGED ex_err
             [] ex_impl # "cli" /\ e # "none" ->
                   /\ ex_pc' = "err"
                   /\ ex_err' = e
                   /\ UNCHANGED ex_real
             [] OTHER ->
                   /\ ex_real' = IF ex_impl = "core"
                                 THEN calculate_chunk_sizes(ex_chunks, lens)
                                 ELSE zsize_correction(ex_chunks, lens)
                   /\ ex_pc' = "planned"
                   /\ UNCHANGED ex_err
    /\ UNCHANGED <<ex_impl, ex_keep_raw, ex_chunks, ex_vols, ex_map, ex_todo,
                   ex_worker, ex_out, ex_events>>
    /\ UNCHANGED not_ex_vars

\* core: on_progress(Start(map_entries.len())); the others report nothing
\* through the progress callback.
start_events(impl, total) ==
    IF impl = "core" THEN << [kind |-> "Start", n |-> total] >> ELSE <<>>

\* The head of extract / of the extraction part: the map goes to the pool.
ExBegin ==
    /\ ex_pc = "planned"
    /\ ex_events' = ex_events \o start_events(ex_impl, Len(ex_map))
    /\ ex_todo' = 1..Len(ex_map)
    /\ ex_pc' = "running"
    /\ UNCHANGED <<ex_impl, ex_keep_raw, ex_chunks, ex_vols, ex_map, ex_real,
                   ex_worker, ex_out, ex_err>>
    /\ UNCHANGED not_ex_vars

\* cli: `&chunks[first_chunk_id as usize]` ahead of the chunk loop panics on
\* an id the table lacks.
cli_first_chunk_panics(chunks, ids) ==
    ids # <<>> /\ ids[1] + 1 \notin DOMAIN chunks

\* A worker takes a map entry and creates its output file.  Entries are
\* not started once an error is on record.
ExTake(w, f) ==
    /\ ex_pc = "running"
    /\ ex_err = "none"
    /\ ex_worker[w].file = 0
    /\ f \in ex_todo
    /\ ex_todo' = ex_todo \ {f}
    /\ ex_out' = [ex_out EXCEPT ![f].created = TRUE]
    /\ IF ex_impl = "cli" /\ cli_first_chunk_panics(ex_chunks, ex_map[f])
       THEN /\ ex_err' = "panic"
            /\ UNCHANGED ex_worker
       ELSE /\ ex_worker' = [ex_worker EXCEPT ![w] = [file |-> f, k |-> 1]]
            /\ UNCHANGED ex_err
    /\ UNCHANGED <<ex_impl, ex_keep_raw, ex_chunks, ex_vols, ex_map, ex_real,
                   ex_pc, ex_events>>
    /\ UNCHANGED not_ex_vars

\* What the handle of a chunk's volume yields, or the error of opening it.
open_error(impl, chunk, vols) ==
    IF chunk.file_idx \notin DOMAIN vols THEN IF impl = "cli" THEN "Io" ELSE "Generic"
    ELSE IF ~vols[chunk.file_idx].present
    THEN IF impl = "legacy" THEN "SplitFileMissing" ELSE "Io"
    ELSE "none"

\* core: the body of `for cid in &entry.chunk_ids`: the error returned, if
\* any, and what the writer received.
core_extract_chunk(chunks, real, vols, cid, keep_raw) ==
    IF cid + 1 \notin DOMAIN chunks THEN [err |-> "none", wrote |-> FALSE, bytes |-> <<>>]
    ELSE LET chunk == chunks[cid + 1]
         IN  IF open_error("core", chunk, vols) # "none"
             THEN [err |-> open_error("core", chunk, vols), wrote |-> FALSE, bytes |-> <<>>]
             ELSE LET raw == read_volume(vols[chunk.file_idx].bytes, chunk.offset,
                                         real[cid + 1])
                      dec == decompress(raw, chunk.flags, chunk.d_len)
                  IN  IF dec.ok THEN [err |-> "none", wrote |-> TRUE, bytes |-> dec.data]
                      ELSE IF keep_raw
                      THEN [err |-> "none", wrote |-> TRUE, bytes |-> dec.partial \o raw]
                      ELSE [err |-> dec.err, wrote |-> TRUE, bytes |-> dec.partial]

\* legacy: the same loop body; the raw copy is the fallback of every failed
\* chunk but a DZ_RANGE one without keep_raw.
legacy_extract_chunk(chunks, real, vols, cid, keep_raw) ==
    IF cid + 1 \notin DOMAIN chunks THEN [err |-> "none", wrote |-> FALSE, bytes |-> <<>>]
    ELSE LET chunk == chunks[cid + 1]
         IN  IF open_error("legacy", chunk, vols) # "none"
             THEN [err |-> open_error("legacy", chunk, vols), wrote |-> FALSE,
                   bytes |-> <<>>]
             ELSE LET raw == read_volume(vols[chunk.file_idx].bytes, chunk.offset,
                                         real[cid + 1])
                      dec == decompress(raw, chunk.flags, chunk.d_len)
                  IN  IF dec.ok THEN [err |-> "none", wrote |-> TRUE, bytes |-> dec.data]
                      ELSE IF HasBit(chunk.flags, CHUNK_DZ) /\ keep_raw
                      THEN [err |-> "none", wrote |-> TRUE, bytes |-> dec.partial \o raw]
                      ELSE IF HasBit(chunk.flags, CHUNK_DZ)
                      THEN [err |-> "Unsupported", wrote |-> TRUE, bytes |-> dec.partial]
                      ELSE [err |-> "none", wrote |-> TRUE, bytes |-> dec.partial \o raw]

\* cli: reader.read_chunk_data_with_volumes and the match on its result: the
\* data is written, an error is logged and the loop goes on.
cli_extract_chunk(chunks, real, vols, cid) ==
    IF cid + 1 \notin DOMAIN chunks THEN [err |-> "panic", wrote |-> FALSE, bytes |-> <<>>]
    ELSE LET chunk == chunks[cid + 1]
         IN  IF open_error("cli", chunk, vols) # "none"
             THEN [err |-> "none", wrote |-> FALSE, bytes |-> <<>>]
             ELSE LET raw == read_volume(vols[chunk.file_idx].bytes, chunk.offset,
                                         real[cid + 1])
                      dec == decompress(raw, chunk.flags, chunk.d_len)
                  IN  IF dec.ok THEN [err |-> "none", wrote |-> TRUE, bytes |-> dec.data]
                      ELSE [err |-> "none", wrote |-> FALSE, bytes |-> <<>>]

extract_chunk(impl, chunks, real, vols, cid, keep_raw) ==
    CASE impl = "core" -> core_extract_chunk(chunks, real, vols, cid, keep_raw)
      [] impl = "legacy" -> legacy_extract_chunk(chunks, real, vols, cid, keep_raw)
      [] OTHER -> cli_extract_chunk(chunks, real, vols, cid)

write_piece_Prepend(pieces, cid, bytes) ==
    << [cid |-> cid, bytes |-> bytes] >> \o pieces

\* What a writer has received, chunk by chunk: the new bytes go last.
write_piece(pieces, cid, bytes) ==
    Append(pieces, [cid |-> cid, bytes |-> bytes])

\* A worker handles the next chunk id of its file.  On an error the closure
\* returns: its BufWriter is dropped, which flushes what it holds.
ExChunk(w) ==
    /\ ex_pc = "running"
    /\ ex_worker[w].file # 0
    /\ ex_worker[w].k <= Len(ex_map[ex_worker[w].file])
    /\ LET f == ex_worker[w].file
           cid == ex_map[f][ex_worker[w].k]
           r == extract_chunk(ex_impl, ex_chunks, ex_real, ex_vols, cid, ex_keep_raw)
       IN  /\ ex_out' = IF r.wrote
                        THEN [ex_out EXCEPT ![f].pieces = write_piece(@, cid, r.bytes)]
                        ELSE ex_out
           /\ IF r.err = "none"
              THEN /\ ex_worker' = [ex_worker EXCEPT ![w].k = @ + 1]
                   /\ UNCHANGED ex_err
              ELSE /\ ex_worker' = [ex_worker EXCEPT ![w] = [file |-> 0, k |-> 0]]
                   /\ ex_err' = IF ex_err = "none" THEN r.err ELSE ex_err
    /\ UNCHANGED <<ex_impl, ex_keep_raw, ex_chunks, ex_vols, ex_map, ex_real,
                   ex_pc, ex_todo, ex_events>>
    /\ UNCHANGED not_ex_vars

file_events_Twice(impl) ==
    IF impl = "core" THEN << [kind |-> "Inc", n |-> 1], [kind |-> "Inc", n |-> 1] >>
    ELSE <<>>

\* core: on_progress(Inc(1)) after the flush of a file whose loop ended.
file_events(impl) ==
    IF impl = "core" THEN << [kind |-> "Inc", n |-> 1] >> ELSE <<>>

\* A worker ends its file: writer.flush(), then the progress report.
ExFinishFile(w) ==
    /\ ex_pc = "running"
    /\ ex_worker[w].file # 0
    /\ ex_worker[w].k > Len(ex_map[ex_worker[w].file])
    /\ ex_worker' = [ex_worker EXCEPT ![w] = [file |-> 0, k |-> 0]]
    /\ ex_out' = [ex_out EXCEPT ![ex_worker[w].file].flushed = TRUE]
    /\ ex_events' = ex_events \o file_events(ex_impl)
    /\ UNCHANGED <<ex_impl, ex_keep_raw, ex_chunks, ex_vols, ex_map, ex_real,
                   ex_pc, ex_todo, ex_err>>
    /\ UNCHANGED not_ex_vars

\* core: on_progress(Finish) once try_for_each_init returned Ok.
finish_events(impl, err) ==
    IF impl = "core" /\ err = "none" THEN << [kind |-> "Finish", n |-> 0] >> ELSE <<>>

\* The pool is done: every entry was handled, or an error stopped the rest
\* and the workers that were busy have returned.
ExJoin ==
    /\ ex_pc = "running"
    /\ \A w \in ExWorkers : ex_worker[w].file = 0
    /\ ex_todo = {} \/ ex_err # "none"
    /\ ex_pc' = IF ex_err = "none" THEN "ok" ELSE "err"
    /\ ex_events' = ex_events \o finish_events(ex_impl, ex_err)
    /\ UNCHANGED <<ex_impl, ex_keep_raw, ex_chunks, ex_vols, ex_map, ex_real,
                   ex_todo, ex_worker, ex_out, ex_err>>
    /\ UNCHANGED not_ex_vars

ExNext ==
    \/ ExBuild
    \/ ExBegin
    \/ \E w \in ExWorkers, f \in 1..MaxExFiles : ExTake(w, f)
    \/ \E w \in ExWorkers : ExChunk(w)
    \/ \E w \in ExWorkers : ExFinishFile(w)
    \/ ExJoin

SpecExtractInit == ExInit /\ RcIdle /\ PxIdle /\ PkIdle /\ RtIdle /\ MdIdle /\ HdIdle /\ CdIdle

SpecExtract == SpecExtractInit /\ [][ExNext]_vars

(***************************************************************************)
(* Archive metadata: load, emit config, re-pack, load.  legacy: do_unpack  *)
(* (src/src/unpack.rs) and do_pack (src/src/pack.rs); core:                *)
(* ArchiveMetadata::load and UnpackPlan::generate_config_struct            *)
(* (src/core/src/unpack.rs).  Payloads are kept by length.                 *)
(***************************************************************************)
\* Most files and most chunks of a loaded archive.
MaxMdFiles == 2
MaxMdChunks == 2

CHUNK_COMBUF == 1
CHUNK_MP3 == 32
CHUNK_JPEG == 64
CHUNK_RANDOMACCESS == 1024

\* FLAG_MAPPINGS, in the order decode_flags tests the bits.
FlagNames ==
    << [bit |-> CHUNK_COMBUF, name |-> "COMBUF"],
       [bit |-> CHUNK_DZ, name |-> "DZ_RANGE"],
       [bit |-> CHUNK_ZLIB, name |-> "ZLIB"],
       [bit |-> CHUNK_BZIP, name |-> "BZIP"],
       [bit |-> CHUNK_MP3, name |-> "MP3"],
       [bit |-> CHUNK_JPEG, name |-> "JPEG"],
       [bit |-> CHUNK_ZERO, name |-> "ZERO"],
       [bit |-> CHUNK_COPYCOMP, name |-> "COPY"],
       [bit |-> CHUNK_LZMA, name |-> "LZMA"],
       [bit |-> CHUNK_RANDOMACCESS, name |-> "RANDOM_ACCESS"] >>

\* ChunkFlags::from_bits_truncate: the known bits of a value.
from_bits_truncate(bits) ==
    SeqSum([k \in 1..Len(FlagNames) |->
               IF HasBit(bits, FlagNames[k].bit) THEN FlagNames[k].bit ELSE 0])

\* legacy: decode_flags, the names of the bits set; "COPY" when none is.
decode_flags(bits) ==
    LET names == SelectSeq([k \in 1..Len(FlagNames) |->
                               IF HasBit(bits, FlagNames[k].bit)
                               THEN FlagNames[k].name ELSE ""],
                           LAMBDA nm : nm # "")
    IN  IF from_bits_truncate(bits) = 0 THEN <<"COPY">> ELSE names

\* legacy: encode_flags, the bits of the names listed.
encode_flags(names) ==
    SeqSum([k \in 1..Len(FlagNames) |->
               IF \E j \in 1..Len(names) : names[j] = FlagNames[k].name
               THEN FlagNames[k].bit ELSE 0])

\* Byte values of the characters that occur in directory strings.
CharCode(c) ==
    CASE c = "." -> 46 [] c = "/" -> 47 [] c = "\\" -> 92 [] c = "a" -> 97
      [] c = "b" -> 98 [] OTHER -> 120

\* Ord for String: bytewise, a proper prefix first.
RECURSIVE StrLess(_, _)
StrLess(x, y) ==
    IF y = <<>> THEN FALSE
    ELSE IF x = <<>> THEN TRUE
    ELSE IF CharCode(Head(x)) # CharCode(Head(y))
         THEN CharCode(Head(x)) < CharCode(Head(y))
    ELSE StrLess(Tail(x), Tail(y))

\* sorted_dirs.sort() on the strings of a set
RECURSIVE SortStrings(_)
SortStrings(set) ==
    IF set = {} THEN <<>>
    ELSE LET least == CHOOSE x \in set : \A y \in set : x = y \/ StrLess(x, y)
         IN  <<least>> \o SortStrings(set \ {least})

\* legacy: sorted_dirs, "." first and then the other keys in order.
sorted_dirs(cfg) == << <<".">> >> \o SortStrings(sorted_dirs_tail(cfg))

\* legacy: d_id, the index of a file's directory key in sorted_dirs, 0 when
\* dir_map lacks it.
dir_id(cfg, f) ==
    LET raw_d == ReplaceChar(cfg.files[f].directory, "\\", "/")
        d_key == IF raw_d = <<>> \/ raw_d = <<".">> THEN <<".">> ELSE raw_d
        at == { i \in 1..Len(sorted_dirs(cfg)) : sorted_dirs(cfg)[i] = d_key }
    IN  IF at = {} THEN 0 ELSE (CHOOSE i \in at : TRUE) - 1

\* raw_dir of a map entry: its directory, "." for an index out of range.
raw_dir_Last(directories, dir_idx) ==
    IF dir_idx < Len(directories) THEN directories[dir_idx + 1]
    ELSE directories[Len(directories)]

raw_dir(directories, dir_idx) ==
    IF dir_idx < Len(directories) THEN directories[dir_idx + 1] ELSE <<".">>

\* legacy: dir_display, on a host whose MAIN_SEPARATOR is "/".
dir_display(dir) == ReplaceChar(dir, "\\", "/")

\* Byte length of the header records of an archive.
MdHeaderBytes(names, dirs, map, n_chunks, splits) ==
    9 + StringsBytes(names) + StringsBytes(dirs)
      + SeqSum([f \in 1..Len(map) |-> 2 + 2 * Len(map[f].chunk_ids) + 2])
      + 4 + 16 * n_chunks + StringsBytes(splits)

\* Stored length of a chunk of d decoded bytes.
MdStoredLen(flags, d) ==
    IF codec_of(flags) = 0 THEN d
    ELSE Len(compress([k \in 1..d |-> SourceByte(0, k)], flags).data)

(***************************************************************************)
(* Archives handed to the load.                                            *)
(***************************************************************************)
MdImpls == {"legacy", "core"}
MdVersions == {0, 1}
MdPayloadLen == 2

\* File names by position, all different.
MdFileName(f) == << <<"p">>, <<"q">>, <<"r">>, <<"s">> >>[f]

\* The directory strings stored after the implicit root.
MdDirLists ==
    { <<>>,
      << <<"a">> >>,
      << <<"a">>, <<"b">> >>,
      << <<"b">>, <<"a">> >>,
      << <<"a">>, <<"a">> >>,
      << <<"a", "/", "b">> >> }

\* dir_idx of file f: the root, the f-th directory, the last one, or one
\* past the list.
MdDirIdx(nd) ==
    { [f \in 1..MaxMdFiles |-> 0],
      [f \in 1..MaxMdFiles |-> Min(f, nd)],
      [f \in 1..MaxMdFiles |-> nd],
      [f \in 1..MaxMdFiles |-> IF f = 1 THEN nd + 1 ELSE 0] }

\* The chunk-id lists: every chunk in the first file, the chunks dealt out
\* in turn, the last chunk in no file, or an id the table lacks between
\* the ids of the first file.
MdChunkIds(n, nf) ==
    { [f \in 1..nf |-> IF f = 1 THEN [k \in 1..n |-> k - 1] ELSE <<>>],
      [f \in 1..nf |-> IF f = 1 THEN <<0, n>> \o [k \in 1..(n - 1) |-> k] ELSE <<>>],
      [f \in 1..nf |-> SelectSeq([k \in 1..n |-> k - 1],
                                 LAMBDA id : id % nf = f - 1)],
      [f \in 1..nf |-> IF f = 1 THEN [k \in 1..(n - 1) |-> k - 1] ELSE <<>>] }

MdFlagPatterns ==
    { [i \in 1..MaxMdChunks |-> CHUNK_COPYCOMP],
      [i \in 1..MaxMdChunks |-> IF i % 2 = 1 THEN CHUNK_ZLIB ELSE CHUNK_COPYCOMP],
      [i \in 1..MaxMdChunks |-> IF i = 1 THEN CHUNK_ZLIB + CHUNK_COMBUF ELSE CHUNK_LZMA] }

\* The header records and the volume length of an archive whose chunks lie
\* one after the other behind the header.
MdDisk(version, num_dirs, dirs, nf, didx, ids, n, flags) ==
    LET names == [f \in 1..nf |-> MdFileName(f)]
        map == [f \in 1..nf |-> [dir_idx |-> didx[f], chunk_ids |-> ids[f]]]
        base == MdHeaderBytes(names, dirs, map, n, <<>>)
        c_len == [i \in 1..n |-> MdStoredLen(flags[i], MdPayloadLen)]
    IN  [version |-> version, num_files |-> nf, num_dirs |-> num_dirs,
         names |-> names, dirs |-> dirs, map |-> map,
         chunks |-> [i \in 1..n |->
                        Chunk(base + SeqSum(SubSeq(c_len, 1, i - 1)), c_len[i],
                              MdPayloadLen, flags[i], 0)],
         splits |-> <<>>,
         vol_len |-> (0 :> base + SeqSum(c_len))]

\* Archives of nf files and n chunks whose header counts the directories it
\* stores, and those whose header says num_dirs = 0.
MdCounted(nf, n) ==
    UNION { { MdDisk(version, Len(dirs) + 1, dirs, nf, didx, ids, n, flags) :
                version \in MdVersions, didx \in MdDirIdx(Len(dirs)),
                ids \in MdChunkIds(n, nf), flags \in MdFlagPatterns } :
            dirs \in MdDirLists }

MdRootless(nf, n) ==
    { MdDisk(version, 0, <<>>, nf, [f \in 1..MaxMdFiles |-> 0], ids, n, flags) :
        version \in MdVersions, ids \in MdChunkIds(n, nf), flags \in MdFlagPatterns }

MdDisks ==
    UNION { MdCounted(nf, n) \cup MdRootless(nf, n) :
            nf \in 1..MaxMdFiles, n \in 1..MaxMdChunks }

MdInit ==
    /\ md_impl \in MdImpls
    /\ md_disk \in MdDisks
    /\ md_pc = "start"
    /\ md_meta = <<>>
    /\ md_files = <<>>
    /\ md_cfg = <<>>
    /\ md_disk2 = <<>>
    /\ md_meta2 = <<>>
    /\ md_err = "none"
    /\ md_list = <<>>

\* legacy: `for _ in 0..(num_dirs - 1)` on num_dirs = 0: the u16 subtraction
\* panics in a build with overflow checks; without them it wraps and the
\* loop takes the bytes behind the file names for directory strings, after
\* which the reads of the map run into the end of the stream.
legacy_dirs_outcomes(num_dirs) ==
    IF num_dirs = 0 THEN {"panic", "Io"} ELSE {"none"}

\* legacy: the header part of do_unpack, through the ZSIZE correction.
legacy_load(disk) ==
    [version |-> disk.version,
     num_files |-> disk.num_files,
     num_dirs |-> disk.num_dirs,
     user_files |-> disk.names,
     directories |-> << <<".">> >> \o disk.dirs,
     map_entries |-> disk.map,
     chunks |-> disk.chunks,
     real_c_len |-> zsize_correction(disk.chunks, disk.vol_len),
     split_file_names |-> disk.splits]

\* core: ArchiveMetadata::load and UnpackPlan::build; the directory strings
\* are read only `if header.num_dirs > 1`.
core_load(disk) ==
    [version |-> disk.version,
     num_files |-> disk.num_files,
     num_dirs |-> disk.num_dirs,
     user_files |-> disk.names,
     directories |-> << <<".">> >> \o (IF disk.num_dirs > 1 THEN disk.dirs ELSE <<>>),
     map_entries |-> disk.map,
     chunks |-> disk.chunks,
     real_c_len |-> calculate_chunk_sizes(disk.chunks, disk.vol_len),
     split_file_names |-> disk.splits]

load(impl, disk) == IF impl = "legacy" THEN legacy_load(disk) ELSE core_load(disk)

\* The load of the archive: no test of the version byte, none of num_dirs.
MdLoad ==
    /\ md_pc = "start"
    /\ \E e \in IF md_impl = "legacy" THEN legacy_dirs_outcomes(md_disk.num_dirs)
                ELSE {"none"} :
          IF e = "none"
          THEN /\ md_meta' = load(md_impl, md_disk)
               /\ md_pc' = "loaded"
               /\ UNCHANGED md_err
          ELSE /\ md_pc' = "err"
               /\ md_err' = e
               /\ UNCHANGED md_meta
    /\ UNCHANGED <<md_impl, md_disk, md_files, md_cfg, md_disk2, md_meta2, md_list>>
    /\ UNCHANGED not_md_vars

\* Bytes an extraction writes for a chunk-id list: d_len for every id the
\* table holds.
extracted_len(meta, ids) ==
    SeqSum([k \in 1..Len(ids) |->
               IF ids[k] + 1 \in DOMAIN meta.chunks THEN meta.chunks[ids[k] + 1].d_len
               ELSE 0])

\* The extraction that follows the load: one output file per map entry.
MdExtract ==
    /\ md_pc = "loaded"
    /\ md_files' = [f \in 1..Len(md_meta.map_entries) |->
                       extracted_len(md_meta, md_meta.map_entries[f].chunk_ids)]
    /\ md_pc' = "extracted"
    /\ UNCHANGED <<md_impl, md_disk, md_meta, md_cfg, md_disk2, md_meta2, md_err,
                   md_list>>
    /\ UNCHANGED not_md_vars

\* core: flags_vec.first() of decode_flags
first_flag(bits) == <<Head(decode_flags(bits))>>

\* The chunk entries of the config, in id order (the table order), with all
\* the flag names (legacy) or the first one (core).
config_chunks(meta, first_only) ==
    [i \in 1..Len(meta.chunks) |->
        [id |-> i - 1,
         offset |-> meta.chunks[i].offset,
         size_compressed |-> meta.real_c_len[i],
         size_decompressed |-> meta.chunks[i].d_len,
         flags |-> IF first_only THEN first_flag(meta.chunks[i].flags)
                   ELSE decode_flags(meta.chunks[i].flags),
         archive_file_index |-> meta.chunks[i].file_idx]]

\* legacy: the config do_unpack serializes ("Generate TOML").
legacy_config(meta) ==
    [archive |-> [version |-> meta.version, total_files |-> meta.num_files,
                  total_directories |-> meta.num_dirs,
                  total_chunks |-> Len(meta.chunks)],
     archive_files |-> meta.split_file_names,
     files |-> [f \in 1..Len(meta.map_entries) |->
                   [filename |-> meta.user_files[f],
                    directory |-> dir_display(raw_dir(meta.directories,
                                                      meta.map_entries[f].dir_idx)),
                    chunks |-> meta.map_entries[f].chunk_ids]],
     chunks |-> config_chunks(meta, FALSE)]

\* core: generate_config_struct; a file entry keeps its first chunk id only
\* and a chunk its first flag name.
generate_config_struct(meta) ==
    [archive |-> [version |-> meta.version,
                  total_files |-> AsU16(Len(meta.map_entries)),
                  total_directories |-> AsU16(Len(meta.directories)),
                  total_chunks |-> AsU16(Len(meta.chunks))],
     archive_files |-> meta.split_file_names,
     files |-> [f \in 1..Len(meta.map_entries) |->
                   [filename |-> meta.user_files[f],
                    directory |-> to_native_path(raw_dir(meta.directories,
                                                         meta.map_entries[f].dir_idx)),
                    chunks |-> IF meta.map_entries[f].chunk_ids = <<>> THEN <<0>>
                               ELSE <<Head(meta.map_entries[f].chunk_ids)>>]],
     chunks |-> config_chunks(meta, TRUE)]

\* The config is emitted once the extraction succeeded.
MdEmit ==
    /\ md_pc = "extracted"
    /\ md_cfg' = IF md_impl = "legacy" THEN legacy_config(md_meta)
                 ELSE generate_config_struct(md_meta)
    /\ md_pc' = "emitted"
    /\ UNCHANGED <<md_impl, md_disk, md_meta, md_files, md_disk2, md_meta2, md_err,
                   md_list>>
    /\ UNCHANGED not_md_vars

\* legacy: the Config do_pack parses from what do_unpack emitted; the source
\* files are the extracted ones, flag names become bits again.
repack_config(cfg) ==
    [files |-> [f \in 1..Len(cfg.files) |->
                   FileEntry(cfg.files[f].filename, cfg.files[f].directory,
                             cfg.files[f].chunks, TRUE)],
     chunks |-> [i \in 1..Len(cfg.chunks) |->
                    [cfg.chunks[i] EXCEPT
                        !.flags = from_bits_truncate(encode_flags(cfg.chunks[i].flags))]],
     archive_files |-> cfg.archive_files]

\* legacy: the header records and volume lengths do_pack leaves for a config.
packed_disk(cfg, res) ==
    [version |-> 0,
     num_files |-> AsU16(Len(cfg.files)),
     num_dirs |-> AsU16(Len(sorted_dirs(cfg))),
     names |-> [f \in 1..Len(cfg.files) |-> cfg.files[f].filename],
     dirs |-> [i \in 1..(Len(sorted_dirs(cfg)) - 1) |->
                  ReplaceChar(sorted_dirs(cfg)[i + 1], "/", "\\")],
     map |-> [f \in 1..Len(cfg.files) |->
                 [dir_idx |-> AsU16(dir_id(cfg, f)), chunk_ids |-> cfg.files[f].chunks]],
     chunks |-> [i \in 1..Len(res.table) |->
                    Chunk(res.table[i].offset, res.table[i].size_compressed,
                          res.table[i].size_decompressed, res.table[i].flags,
                          res.table[i].archive_file_index)],
     splits |-> cfg.archive_files,
     vol_len |-> [v \in DOMAIN res.vols |-> Len(res.vols[v])]]

\* legacy: do_pack on the emitted config and the extracted files.
MdRepack ==
    /\ md_pc = "emitted"
    /\ md_impl = "legacy"
    /\ LET cfg == repack_config(md_cfg)
           src == [f \in 1..Len(md_files) |->
                      [k \in 1..md_files[f] |-> SourceByte(f, k)]]
           res == pack(cfg, src)
       IN  IF res.err # "none"
           THEN /\ md_pc' = "err"
                /\ md_err' = res.err
                /\ UNCHANGED md_disk2
           ELSE /\ md_pc' = "packed"
                /\ md_disk2' = packed_disk(cfg, res)
                /\ UNCHANGED md_err
    /\ UNCHANGED <<md_impl, md_disk, md_meta, md_files, md_cfg, md_meta2, md_list>>
    /\ UNCHANGED not_md_vars

\* The load of the re-packed archive.
MdReload ==
    /\ md_pc = "packed"
    /\ md_meta2' = load(md_impl, md_disk2)
    /\ md_pc' = "reloaded"
    /\ UNCHANGED <<md_impl, md_disk, md_meta, md_files, md_cfg, md_disk2, md_err,
                   md_list>>
    /\ UNCHANGED not_md_vars

\* core: the path do_list shows for a file.
list_path(dir, fname) ==
    IF dir = <<".">> \/ dir = <<>> THEN fname ELSE dir \o <<"/">> \o fname

\* core: the entries of do_list; the size adds up the chunks the table has.
do_list(meta) ==
    [f \in 1..Len(meta.map_entries) |->
        [path |-> list_path(raw_dir(meta.directories, meta.map_entries[f].dir_idx),
                            meta.user_files[f]),
         original_size |-> extracted_len(meta, meta.map_entries[f].chunk_ids),
         chunk_count |-> Len(meta.map_entries[f].chunk_ids)]]

\* core: do_list on the loaded metadata.
MdList ==
    /\ md_pc = "loaded"
    /\ md_impl = "core"
    /\ md_list = <<>>
    /\ md_list' = do_list(md_meta)
    /\ UNCHANGED <<md_impl, md_disk, md_pc, md_meta, md_files, md_cfg, md_disk2,
                   md_meta2, md_err>>
    /\ UNCHANGED not_md_vars

MdNext ==
    \/ MdLoad
    \/ MdList
    \/ MdExtract
    \/ MdEmit
    \/ MdRepack
    \/ MdReload

SpecMetaInit == MdInit /\ RcIdle /\ PxIdle /\ PkIdle /\ RtIdle /\ ExIdle /\ HdIdle /\ CdIdle

SpecMeta == SpecMetaInit /\ [][MdNext]_vars

(***************************************************************************)
(* Volume read handles during parallel extraction (core UnpackPlan::extract *)
(* and legacy do_unpack).  try_for_each_init pairs every worker with a     *)
(* cache made by HashMap::new; the closure resolves a chunk's volume in    *)
(* that cache, opening it when the entry is vacant, seeks the handle to    *)
(* the chunk's offset and reads from it.  The three are separate steps, so *)
(* that the workers interleave between a seek and its read.  The bytes of  *)
(* a read are those at the handle's position: a read is right when it      *)
(* begins at its chunk's offset.                                           *)
(***************************************************************************)
MaxHdFiles == 2

HdVolumes == {0, 1}
HdChunk(v, o) == [file_idx |-> v, offset |-> o]

\* The chunk lists a map entry may have.
HdEntries ==
    { <<HdChunk(0, 0)>>,
      <<HdChunk(0, 2)>>,
      <<HdChunk(0, 2), HdChunk(1, 0)>>,
      <<HdChunk(1, 0), HdChunk(0, 0), HdChunk(1, 2)>> }

HdMaps == UNION { [1..n -> HdEntries] : n \in 1..MaxHdFiles }

handle_of_Shared(w, v) == <<1, v>>

\* file_cache.entry(chunk.file_idx): the handle of volume v in the cache of
\* worker w.
handle_of(w, v) == <<w, v>>

HdHandleIds == ExWorkers \X HdVolumes

HdInit ==
    /\ hd_map \in HdMaps
    /\ hd_todo = 1..Len(hd_map)
    /\ hd_worker = [w \in ExWorkers |-> [file |-> 0, k |-> 0, step |-> "idle"]]
    /\ hd_handle = [h \in HdHandleIds |-> [open |-> FALSE, pos |-> 0, users |-> {}]]
    /\ hd_opens = [w \in ExWorkers |-> [v \in HdVolumes |-> 0]]
    /\ hd_wrong = FALSE
    /\ hd_pc = "running"

HdChunkOf(w) == hd_map[hd_worker[w].file][hd_worker[w].k]

\* A worker takes a map entry; its cache stays as the last entry left it.
HdTake(w, f) ==
    /\ hd_pc = "running"
    /\ hd_worker[w].step = "idle"
    /\ f \in hd_todo
    /\ hd_todo' = hd_todo \ {f}
    /\ hd_worker' = [hd_worker EXCEPT ![w] = [file |-> f, k |-> 1, step |-> "entry"]]
    /\ UNCHANGED <<hd_map, hd_handle, hd_opens, hd_wrong, hd_pc>>
    /\ UNCHANGED not_hd_vars

\* match file_cache.entry(chunk.file_idx): Occupied gives the handle,
\* Vacant opens the volume and inserts it.
HdEntry(w) ==
    /\ hd_pc = "running"
    /\ hd_worker[w].step = "entry"
    /\ hd_worker[w].k <= Len(hd_map[hd_worker[w].file])
    /\ LET v == HdChunkOf(w).file_idx
           h == handle_of(w, v)
       IN  IF hd_handle[h].open
           THEN UNCHANGED <<hd_handle, hd_opens>>
           ELSE /\ hd_handle' = [hd_handle EXCEPT ![h] =
                                    [open |-> TRUE, pos |-> 0, users |-> {}]]
                /\ hd_opens' = [hd_opens EXCEPT ![w][v] = @ + 1]
    /\ hd_worker' = [hd_worker EXCEPT ![w].step = "seek"]
    /\ UNCHANGED <<hd_map, hd_todo, hd_wrong, hd_pc>>
    /\ UNCHANGED not_hd_vars

\* source_file.seek(SeekFrom::Start(chunk.offset))
HdSeek(w) ==
    /\ hd_pc = "running"
    /\ hd_worker[w].step = "seek"
    /\ LET c == HdChunkOf(w)
           h == handle_of(w, c.file_idx)
       IN  hd_handle' = [hd_handle EXCEPT ![h].pos = c.offset,
                                          ![h].users = @ \cup {w}]
    /\ hd_worker' = [hd_worker EXCEPT ![w].step = "read"]
    /\ UNCHANGED <<hd_map, hd_todo, hd_opens, hd_wrong, hd_pc>>
    /\ UNCHANGED not_hd_vars

\* BufReader::with_capacity(.., source_file).take(real_c_len) is read by
\* the codec: the bytes come from the handle's position, which moves on.
HdRead(w) ==
    /\ hd_pc = "running"
    /\ hd_worker[w].step = "read"
    /\ LET c == HdChunkOf(w)
           h == handle_of(w, c.file_idx)
       IN  /\ hd_wrong' = (hd_wrong \/ hd_handle[h].pos # c.offset)
           /\ hd_handle' = [hd_handle EXCEPT ![h].pos = @ + 1,
                                             ![h].users = @ \cup {w}]
    /\ hd_worker' = [hd_worker EXCEPT ![w].k = @ + 1, ![w].step = "entry"]
    /\ UNCHANGED <<hd_map, hd_todo, hd_opens, hd_pc>>
    /\ UNCHANGED not_hd_vars

\* The chunk loop of the entry has ended: the closure returns.
HdFinishFile(w) ==
    /\ hd_pc = "running"
    /\ hd_worker[w].step = "entry"
    /\ hd_worker[w].k > Len(hd_map[hd_worker[w].file])
    /\ hd_worker' = [hd_worker EXCEPT ![w] = [file |-> 0, k |-> 0, step |-> "idle"]]
    /\ UNCHANGED <<hd_map, hd_todo, hd_handle, hd_opens, hd_wrong, hd_pc>>
    /\ UNCHANGED not_hd_vars

\* try_for_each_init returns: the caches are dropped, and their handles
\* with them.
HdJoin ==
    /\ hd_pc = "running"
    /\ hd_todo = {}
    /\ \A w \in ExWorkers : hd_worker[w].step = "idle"
    /\ hd_pc' = "done"
    /\ hd_handle' = [h \in HdHandleIds |-> [hd_handle[h] EXCEPT !.open = FALSE]]
    /\ UNCHANGED <<hd_map, hd_todo, hd_worker, hd_opens, hd_wrong>>
    /\ UNCHANGED not_hd_vars

HdNext ==
    \/ \E w \in ExWorkers, f \in 1..MaxHdFiles : HdTake(w, f)
    \/ \E w \in ExWorkers : HdEntry(w)
    \/ \E w \in ExWorkers : HdSeek(w)
    \/ \E w \in ExWorkers : HdRead(w)
    \/ \E w \in ExWorkers : HdFinishFile(w)
    \/ HdJoin

SpecHandlesInit ==
    HdInit /\ RcIdle /\ PxIdle /\ PkIdle /\ RtIdle /\ ExIdle /\ MdIdle /\ CdIdle

SpecHandles == SpecHandlesInit /\ [][HdNext]_vars

(***************************************************************************)
(* Codecs taken on their own: a value goes through one conversion and      *)
(* through the one that undoes it.                                         *)
(*   "flags": a chunk's flag bits become the names do_unpack writes to the *)
(*            config (decode_flags), and the names become the bits do_pack *)
(*            writes to the chunk table (encode_flags).                    *)
(***************************************************************************)
\* Every value built only from the ten defined bits.
CdFlagValues == { v \in 0..2047 : from_bits_truncate(v) = v }

CdFlagsInit ==
    /\ cd_op = "flags"
    /\ cd_in \in CdFlagValues
    /\ cd_wire = <<>>
    /\ cd_out = <<>>
    /\ cd_pc = "start"

\* legacy do_unpack: flags: decode_flags(c.flags) in the emitted config.
CdDecodeFlags ==
    /\ cd_op = "flags"
    /\ cd_pc = "start"
    /\ cd_wire' = decode_flags(cd_in)
    /\ cd_pc' = "mid"
    /\ UNCHANGED <<cd_op, cd_in, cd_out>>
    /\ UNCHANGED not_cd_vars

\* legacy do_pack: write_u16(encode_flags(&c.flags)) into the chunk table.
CdEncodeFlags ==
    /\ cd_op = "flags"
    /\ cd_pc = "mid"
    /\ cd_out' = encode_flags(cd_wire)
    /\ cd_pc' = "done"
    /\ UNCHANGED <<cd_op, cd_in, cd_wire>>
    /\ UNCHANGED not_cd_vars

(***************************************************************************)
(*   "ids": the file -> chunk map block.  Values keep their real 16-bit    *)
(*          width here and the block is a sequence of bytes, so that byte  *)
(*          order, the terminator and the position of every record are     *)
(*          what the code makes them.  Positions are 1-based indices of    *)
(*          the next byte to read.                                         *)
(***************************************************************************)
CHUNK_LIST_TERMINATOR == 65535

MaxCdEntries == 3

\* write_u16::<BigEndian>: the high byte first.
write_u16_BigEndian(x) == <<x \div 256, x % 256>>

\* write_u16::<LittleEndian> / #[brw(little)]
write_u16(x) == <<x % 256, x \div 256>>

\* u16::read_options(reader, endian, ()): fails when fewer than two bytes
\* are left.
read_u16(bytes, pos) ==
    IF pos + 1 <= Len(bytes)
    THEN [ok |-> TRUE, val |-> bytes[pos] + 256 * bytes[pos + 1], pos |-> pos + 2]
    ELSE [ok |-> FALSE, val |-> 0, pos |-> pos]

RECURSIVE write_chunk_ids(_)
write_chunk_ids(ids) ==
    IF ids = <<>>
    THEN write_u16(CHUNK_LIST_TERMINATOR)
    ELSE write_u16(Head(ids)) \o write_chunk_ids(Tail(ids))

\* A map entry is <<dir_id, chunks>>.
RECURSIVE write_file_chunk_map(_)
write_file_chunk_map(map) ==
    IF map = <<>>
    THEN <<>>
    ELSE write_u16(Head(map)[1]) \o write_chunk_ids(Head(map)[2])
             \o write_file_chunk_map(Tail(map))

RECURSIVE read_chunk_ids(_, _, _)
read_chunk_ids(bytes, pos, ids) ==
    LET id == read_u16(bytes, pos)
    IN  IF ~id.ok
        THEN [ok |-> FALSE, val |-> <<>>, pos |-> pos]
        ELSE IF id.val = CHUNK_LIST_TERMINATOR
        THEN [ok |-> TRUE, val |-> ids, pos |-> id.pos]
        ELSE read_chunk_ids(bytes, id.pos, Append(ids, id.val))

\* FileMapDiskEntry::read: dir_idx, then the id list.  start and stop are
\* the positions before and after the record.
read_FileMapDiskEntry(bytes, pos) ==
    LET dir == read_u16(bytes, pos)
        ids == read_chunk_ids(bytes, dir.pos, <<>>)
    IN  IF dir.ok /\ ids.ok
        THEN [ok |-> TRUE,
              val |-> [dir_idx |-> dir.val, chunk_ids |-> ids.val,
                       start |-> pos, stop |-> ids.pos],
              pos |-> ids.pos]
        ELSE [ok |-> FALSE, val |-> <<>>, pos |-> pos]

\* Vec::<FileMapDiskEntry>::read_args(count): count records one after the
\* other, the first error ends the read.
RECURSIVE read_map_entries(_, _, _, _)
read_map_entries(bytes, pos, count, entries) ==
    IF count = 0
    THEN [ok |-> TRUE, val |-> entries, pos |-> pos]
    ELSE LET e == read_FileMapDiskEntry(bytes, pos)
         IN  IF ~e.ok
             THEN [ok |-> FALSE, val |-> entries, pos |-> pos]
             ELSE read_map_entries(bytes, e.pos, count - 1, Append(entries, e.val))

\* The entries a map is made of: empty lists, ids whose two bytes differ,
\* and ids equal to the terminator, first, last and in between.
CdEntries ==
    { <<0, <<>>>>,
      <<0, <<258>>>>,
      <<513, <<0, 1>>>>,
      <<1, <<65535>>>>,
      <<1, <<258, 65535>>>>,
      <<0, <<65535, 258>>>> }

CdMaps == UNION { [1..n -> CdEntries] : n \in 1..MaxCdEntries }

CdIdsInit ==
    /\ cd_op = "ids"
    /\ cd_in \in CdMaps
    /\ cd_wire = <<>>
    /\ cd_out = <<>>
    /\ cd_pc = "start"

CdWriteMap ==
    /\ cd_op = "ids"
    /\ cd_pc = "start"
    /\ cd_wire' = write_file_chunk_map(cd_in)
    /\ cd_pc' = "mid"
    /\ UNCHANGED <<cd_op, cd_in, cd_out>>
    /\ UNCHANGED not_cd_vars

CdReadMap ==
    /\ cd_op = "ids"
    /\ cd_pc = "mid"
    /\ cd_out' = read_map_entries(cd_wire, 1, Len(cd_in), <<>>)
    /\ cd_pc' = "done"
    /\ UNCHANGED <<cd_op, cd_in, cd_wire>>
    /\ UNCHANGED not_cd_vars

(***************************************************************************)
(*   "blocks": the seven blocks of an archive written one after the other  *)
(*          by DzipWriter and read back by DzipReader with the counts that *)
(*          were written, as core/tests/roundtrip.rs does.  A string is    *)
(*          the sequence of its bytes, and a u32 the pair <<high, low>> of *)
(*          its 16-bit halves, so that all 2^32 values can be told apart.  *)
(*          DzipReader is modelled from the format description: the same   *)
(*          fields in the same order, little-endian, zero-terminated       *)
(*          strings decoded lossily, a truncated block and a wrong magic   *)
(*          are errors; whether it also rejects num_directories = 0 is     *)
(*          left open.                                                     *)
(***************************************************************************)
\* 0x5A525444
MAGIC == <<23122, 17492>>

\* Little-endian: the low half first.
write_u32(x) == write_u16(x[2]) \o write_u16(x[1])

read_u8(bytes, pos) ==
    IF pos <= Len(bytes)
    THEN [ok |-> TRUE, val |-> bytes[pos], pos |-> pos + 1]
    ELSE [ok |-> FALSE, val |-> 0, pos |-> pos]

read_u32(bytes, pos) ==
    LET low == read_u16(bytes, pos)
        high == read_u16(bytes, low.pos)
    IN  IF low.ok /\ high.ok
        THEN [ok |-> TRUE, val |-> <<high.val, low.val>>, pos |-> high.pos]
        ELSE [ok |-> FALSE, val |-> <<0, 0>>, pos |-> pos]

RECURSIVE Flatten(_)
Flatten(seqs) == IF seqs = <<>> THEN <<>> ELSE Head(seqs) \o Flatten(Tail(seqs))

write_archive_settings(settings) ==
    write_u32(settings.header) \o write_u16(settings.num_user_files)
        \o write_u16(settings.num_directories) \o <<settings.version>>

\* The bytes of every string with no zero after them.
write_strings_NoTerminator(strings) == Flatten(strings)

\* write_all(s.as_bytes()); write_u8(0)
write_strings(strings) ==
    Flatten([k \in 1..Len(strings) |-> Append(strings[k], 0)])

write_chunk_settings(settings) ==
    write_u16(settings.num_archive_files) \o write_u16(settings.num_chunks)

write_chunks(chunks) ==
    Flatten([k \in 1..Len(chunks) |->
        write_u32(chunks[k].offset) \o write_u32(chunks[k].compressed_length)
            \o write_u32(chunks[k].decompressed_length)
            \o write_u16(chunks[k].flags) \o write_u16(chunks[k].file)])

\* The ten u8 fields in the order of the struct.
write_global_settings(settings) == settings

\* String::from_utf8_lossy on the bytes of one string: one-byte and
\* well-formed two-byte characters are kept, any other byte becomes
\* U+FFFD (EF BF BD).
RECURSIVE from_utf8_lossy(_)
from_utf8_lossy(bs) ==
    IF bs = <<>> THEN <<>>
    ELSE IF bs[1] < 128
    THEN <<bs[1]>> \o from_utf8_lossy(Tail(bs))
    ELSE IF /\ bs[1] \in 194..223
            /\ Len(bs) >= 2
            /\ bs[2] \in 128..191
    THEN <<bs[1], bs[2]>> \o from_utf8_lossy(Tail(Tail(bs)))
    ELSE <<239, 191, 189>> \o from_utf8_lossy(Tail(bs))

read_archive_settings(bytes, pos, checks_dirs) ==
    LET header == read_u32(bytes, pos)
        files == read_u16(bytes, header.pos)
        dirs == read_u16(bytes, files.pos)
        version == read_u8(bytes, dirs.pos)
    IN  IF ~(header.ok /\ files.ok /\ dirs.ok /\ version.ok)
        THEN [ok |-> FALSE, err |-> "Io", val |-> <<>>, pos |-> pos]
        ELSE IF header.val # MAGIC
        THEN [ok |-> FALSE, err |-> "InvalidMagic", val |-> <<>>, pos |-> pos]
        ELSE IF checks_dirs /\ dirs.val = 0
        THEN [ok |-> FALSE, err |-> "Format", val |-> <<>>, pos |-> pos]
        ELSE [ok |-> TRUE, err |-> "none",
              val |-> [header |-> header.val, num_user_files |-> files.val,
                       num_directories |-> dirs.val, version |-> version.val],
              pos |-> version.pos]

\* The bytes up to the next zero byte.
RECURSIVE read_cstr(_, _, _)
read_cstr(bytes, pos, acc) ==
    IF pos > Len(bytes)
    THEN [ok |-> FALSE, val |-> <<>>, pos |-> pos]
    ELSE IF bytes[pos] = 0
    THEN [ok |-> TRUE, val |-> from_utf8_lossy(acc), pos |-> pos + 1]
    ELSE read_cstr(bytes, pos + 1, Append(acc, bytes[pos]))

RECURSIVE read_strings(_, _, _, _)
read_strings(bytes, pos, count, strings) ==
    IF count = 0
    THEN [ok |-> TRUE, err |-> "none", val |-> strings, pos |-> pos]
    ELSE LET s == read_cstr(bytes, pos, <<>>)
         IN  IF ~s.ok
             THEN [ok |-> FALSE, err |-> "Io", val |-> <<>>, pos |-> pos]
             ELSE read_strings(bytes, s.pos, count - 1, Append(strings, s.val))

\* A map entry comes back as the pair it was written from.
read_file_chunk_map(bytes, pos, count) ==
    LET r == read_map_entries(bytes, pos, count, <<>>)
    IN  IF ~r.ok
        THEN [ok |-> FALSE, err |-> "Io", val |-> <<>>, pos |-> pos]
        ELSE [ok |-> TRUE, err |-> "none",
              val |-> [k \in 1..Len(r.val) |->
                          <<r.val[k].dir_idx, r.val[k].chunk_ids>>],
              pos |-> r.pos]

read_chunk_settings(bytes, pos) ==
    LET files == read_u16(bytes, pos)
        chunks == read_u16(bytes, files.pos)
    IN  IF ~(files.ok /\ chunks.ok)
        THEN [ok |-> FALSE, err |-> "Io", val |-> <<>>, pos |-> pos]
        ELSE [ok |-> TRUE, err |-> "none",
              val |-> [num_archive_files |-> files.val, num_chunks |-> chunks.val],
              pos |-> chunks.pos]

RECURSIVE read_chunks(_, _, _, _)
read_chunks(bytes, pos, count, chunks) ==
    IF count = 0
    THEN [ok |-> TRUE, err |-> "none", val |-> chunks, pos |-> pos]
    ELSE LET offset == read_u32(bytes, pos)
             c_len == read_u32(bytes, offset.pos)
             d_len == read_u32(bytes, c_len.pos)
             flags == read_u16(bytes, d_len.pos)
             file == read_u16(bytes, flags.pos)
         IN  IF ~(offset.ok /\ c_len.ok /\ d_len.ok /\ flags.ok /\ file.ok)
             THEN [ok |-> FALSE, err |-> "Io", val |-> <<>>, pos |-> pos]
             ELSE read_chunks(bytes, file.pos, count - 1,
                      Append(chunks,
                          [offset |-> offset.val, compressed_length |-> c_len.val,
                           decompressed_length |-> d_len.val,
                           flags |-> flags.val, file |-> file.val]))

read_global_settings(bytes, pos) ==
    IF pos + 9 <= Len(bytes)
    THEN [ok |-> TRUE, err |-> "none", val |-> SubSeq(bytes, pos, pos + 9),
          pos |-> pos + 10]
    ELSE [ok |-> FALSE, err |-> "Io", val |-> <<>>, pos |-> pos]

\* The seven write calls of the test, into one buffer.
write_blocks(b) ==
    write_archive_settings(b.settings)
        \o write_strings(b.strings)
        \o write_file_chunk_map(b.map)
        \o write_chunk_settings(b.chunk_settings)
        \o write_chunks(b.chunks)
        \o write_strings(b.file_list)
        \o write_global_settings(b.range)

\* The seven read calls of the test with the counts of what was written;
\* the first error ends the read (the test unwraps every result).
read_blocks(bytes, b, checks_dirs) ==
    LET settings == read_archive_settings(bytes, 1, checks_dirs)
        strings == read_strings(bytes, settings.pos, Len(b.strings), <<>>)
        map == read_file_chunk_map(bytes, strings.pos, Len(b.map))
        chunk_settings == read_chunk_settings(bytes, map.pos)
        chunks == read_chunks(bytes, chunk_settings.pos, Len(b.chunks), <<>>)
        file_list == read_strings(bytes, chunks.pos, Len(b.file_list), <<>>)
        range == read_global_settings(bytes, file_list.pos)
        Failed(r) == [ok |-> FALSE, err |-> r.err, val |-> <<>>]
    IN  IF ~settings.ok THEN Failed(settings)
        ELSE IF ~strings.ok THEN Failed(strings)
        ELSE IF ~map.ok THEN Failed(map)
        ELSE IF ~chunk_settings.ok THEN Failed(chunk_settings)
        ELSE IF ~chunks.ok THEN Failed(chunks)
        ELSE IF ~file_list.ok THEN Failed(file_list)
        ELSE IF ~range.ok THEN Failed(range)
        ELSE [ok |-> TRUE, err |-> "none",
              val |-> [settings |-> settings.val, strings |-> strings.val,
                       map |-> map.val, chunk_settings |-> chunk_settings.val,
                       chunks |-> chunks.val, file_list |-> file_list.val,
                       range |-> range.val]]

\* Block contents: the values of the test (with shorter names), values
\* whose bytes all differ, empty blocks, a header that is not the magic,
\* num_directories = 0, a chunk id equal to the terminator, a two-byte
\* character and a string with a zero byte in it.
CdSettings ==
    { [header |-> MAGIC, num_user_files |-> 2, num_directories |-> 1, version |-> 0],
      [header |-> MAGIC, num_user_files |-> 258, num_directories |-> 0, version |-> 255],
      [header |-> <<258, 772>>, num_user_files |-> 0, num_directories |-> 513, version |-> 1] }

CdStrings ==
    { <<>>,
      << <<102, 49>>, <<102, 50>>, <<100>> >>,
      << <<>>, <<195, 169, 98>> >>,
      << <<97, 0, 98>>, <<99>> >> }

CdBlockMaps ==
    { <<>>,
      << <<0, <<0>>>>, <<0, <<1>>>> >>,
      << <<513, <<258, 0>>>>, <<0, <<>>>> >>,
      << <<1, <<258, 65535>>>>, <<0, <<7>>>> >> }

CdChunkSettings ==
    { [num_archive_files |-> 2, num_chunks |-> 2],
      [num_archive_files |-> 513, num_chunks |-> 0] }

CdChunks ==
    { <<>>,
      << [offset |-> <<0, 0>>, compressed_length |-> <<0, 10>>,
          decompressed_length |-> <<0, 10>>, flags |-> 0, file |-> 0],
         [offset |-> <<258, 772>>, compressed_length |-> <<65535, 65535>>,
          decompressed_length |-> <<1286, 1800>>, flags |-> 1032, file |-> 258] >> }

CdFileLists == { <<>>, << <<97, 46, 100>> >> }

CdRanges ==
    { [k \in 1..10 |-> 0], [k \in 1..10 |-> 256 - k] }

CdBlocks ==
    [settings : CdSettings, strings : CdStrings, map : CdBlockMaps,
     chunk_settings : CdChunkSettings, chunks : CdChunks,
     file_list : CdFileLists, range : CdRanges]

CdBlocksInit ==
    /\ cd_op = "blocks"
    /\ cd_in \in CdBlocks
    /\ cd_wire = <<>>
    /\ cd_out = <<>>
    /\ cd_pc = "start"

CdWriteBlocks ==
    /\ cd_op = "blocks"
    /\ cd_pc = "start"
    /\ cd_wire' = write_blocks(cd_in)
    /\ cd_pc' = "mid"
    /\ UNCHANGED <<cd_op, cd_in, cd_out>>
    /\ UNCHANGED not_cd_vars

CdReadBlocks ==
    /\ cd_op = "blocks"
    /\ cd_pc = "mid"
    /\ \E checks_dirs \in BOOLEAN :
           cd_out' = read_blocks(cd_wire, cd_in, checks_dirs)
    /\ cd_pc' = "done"
    /\ UNCHANGED <<cd_op, cd_in, cd_wire>>
    /\ UNCHANGED not_cd_vars

CdInit ==
    \/ CdFlagsInit
    \/ CdIdsInit
    \/ CdBlocksInit

CdNext ==
    \/ CdDecodeFlags
    \/ CdEncodeFlags
    \/ CdWriteMap
    \/ CdReadMap
    \/ CdWriteBlocks
    \/ CdReadBlocks

SpecCodecInit ==
    CdInit /\ RcIdle /\ PxIdle /\ PkIdle /\ RtIdle /\ ExIdle /\ MdIdle /\ HdIdle

SpecCodec == SpecCodecInit /\ [][CdNext]_vars

(***************************************************************************)
(* Reconciler claims.  The limit and the available length are stated here  *)
(* from the chunk table alone, not through the code's sort.                *)
(***************************************************************************)
\* Chunks of i's volume that follow chunk i when the volume is ordered by
\* offset (table order on equal offsets).
RcAfter(i) ==
    { j \in 1..Len(rc_chunks) :
        /\ rc_chunks[j].file_idx = rc_chunks[i].file_idx
        /\ \/ rc_chunks[j].offset > rc_chunks[i].offset
           \/ rc_chunks[j].offset = rc_chunks[i].offset /\ j > i }

\* The next chunk's offset in the same volume, or the volume length.
RcLimit(i) ==
    IF RcAfter(i) = {} THEN rc_vol[rc_chunks[i].file_idx]
    ELSE CHOOSE o \in { rc_chunks[j].offset : j \in RcAfter(i) } :
            \A j \in RcAfter(i) : o <= rc_chunks[j].offset

\* The limit as a 32-bit value.
RcLimit32(i) == IF RcAfter(i) = {} THEN RcLimit(i) % U32 ELSE RcLimit(i)

RcAvailable(i) == Max(0, RcLimit(i) - rc_chunks[i].offset)

RcPlaceholder(i) == is_compressed(rc_chunks[i]) /\ equal_sizes(rc_chunks[i])

RcDone(impls) == rc_pc = "reconciled" /\ rc_impl \in impls

\* What calculate_chunk_sizes and the legacy ZSIZE correction leave in
\* real_c_len: the 32-bit gap, or the header value when the limit is below
\* the offset.
RcGapOrHeader(i) ==
    IF RcLimit32(i) >= rc_chunks[i].offset
    THEN RcLimit32(i) - rc_chunks[i].offset
    ELSE rc_chunks[i].c_len

\* C6 as stated: every compressed, equal-sized chunk gets
\* real_compressed_length = available = max(0, limit - offset).
C6_Original ==
    RcDone({"cli", "core"}) =>
        \A i \in 1..Len(rc_chunks) :
            RcPlaceholder(i) => rc_real[i] = RcAvailable(i)

\* C6 amended: for a compressed, equal-sized chunk, unpack_archive stores
\* available truncated to 32 bits; calculate_chunk_sizes stores the 32-bit
\* gap limit - offset when limit >= offset and keeps the header value (not
\* 0) when limit < offset.  Both store available when limit >= offset and
\* the volume is shorter than 2^32.
C6_EqualSizeRule ==
    \A i \in 1..Len(rc_chunks) :
        RcPlaceholder(i) =>
            /\ RcDone({"cli"}) => rc_real[i] = RcAvailable(i) % U32
            /\ RcDone({"core"}) => rc_real[i] = RcGapOrHeader(i)
            /\ RcDone({"cli", "core"})
                 /\ rc_vol[rc_chunks[i].file_idx] < U32
                 /\ RcLimit(i) >= rc_chunks[i].offset
               => rc_real[i] = RcAvailable(i)

\* C6 witness: a placeholder chunk was enlarged beyond its header value.
C6_Witness ==
    /\ RcDone({"cli"})
    /\ \E i \in 1..Len(rc_chunks) :
          /\ RcPlaceholder(i)
          /\ rc_real[i] > rc_chunks[i].c_len
          /\ rc_real[i] = RcAvailable(i)

\* C7 as stated: a chunk that is not (compressed and equal-sized) and whose
\* header length exceeds available gets real_compressed_length = available.
C7_Original ==
    RcDone({"cli", "core"}) =>
        \A i \in 1..Len(rc_chunks) :
            ~RcPlaceholder(i) /\ rc_chunks[i].c_len > RcAvailable(i)
                => rc_real[i] = RcAvailable(i)

\* C7 amended: such a chunk is clamped to available by unpack_archive
\* always, and by calculate_chunk_sizes when its 32-bit limit is at least
\* its offset; when the limit is below the offset calculate_chunk_sizes
\* keeps the header value.
C7_ClampRule ==
    \A i \in 1..Len(rc_chunks) :
        ~RcPlaceholder(i) /\ rc_chunks[i].c_len > RcAvailable(i) =>
            /\ RcDone({"cli"}) => rc_real[i] = RcAvailable(i)
            /\ RcDone({"core"}) =>
                 rc_real[i] = IF RcLimit32(i) >= rc_chunks[i].offset
                              THEN RcAvailable(i)
                              ELSE rc_chunks[i].c_len

\* C7 witness: a chunk was clamped to a nonzero available length.
C7_Witness ==
    /\ RcDone({"cli", "core"})
    /\ \E i \in 1..Len(rc_chunks) :
          /\ ~RcPlaceholder(i)
          /\ rc_chunks[i].c_len > RcAvailable(i)
          /\ RcAvailable(i) > 0
          /\ rc_real[i] = RcAvailable(i)

\* C8 as stated: a chunk that is not (compressed and equal-sized) and whose
\* header length is at most available keeps its header length.
C8_Original ==
    RcDone({"cli", "core", "legacy"}) =>
        \A i \in 1..Len(rc_chunks) :
            ~RcPlaceholder(i) /\ rc_chunks[i].c_len <= RcAvailable(i)
                => rc_real[i] = rc_chunks[i].c_len

\* C8 amended: unpack_archive keeps the header length of such a chunk;
\* calculate_chunk_sizes and the legacy do_unpack replace it by the 32-bit
\* gap limit - offset (enlarging it) and keep the header length only when
\* the limit is below the offset.
C8_KeepRule ==
    \A i \in 1..Len(rc_chunks) :
        ~RcPlaceholder(i) /\ rc_chunks[i].c_len <= RcAvailable(i) =>
            /\ RcDone({"cli"}) => rc_real[i] = rc_chunks[i].c_len
            /\ RcDone({"core", "legacy"}) => rc_real[i] = RcGapOrHeader(i)

\* C8 witness: unpack_archive kept a header length smaller than the gap.
C8_Witness ==
    /\ RcDone({"cli"})
    /\ \E i \in 1..Len(rc_chunks) :
          /\ ~RcPlaceholder(i)
          /\ rc_chunks[i].c_len < RcAvailable(i)
          /\ rc_real[i] = rc_chunks[i].c_len

\* C9 as stated: after reconciliation every chunk has
\* offset <= volume_length and offset + real_compressed_length <=
\* volume_length, whatever the table and the volume lengths.
C9_Original ==
    RcDone({"cli", "core"}) =>
        \A i \in 1..Len(rc_chunks) :
            /\ rc_chunks[i].offset <= rc_vol[rc_chunks[i].file_idx]
            /\ rc_chunks[i].offset + rc_real[i] <= rc_vol[rc_chunks[i].file_idx]

\* Every chunk of i's volume starts inside the volume, which is shorter
\* than 2^32.
RcVolumeWellFormed(i) ==
    /\ rc_vol[rc_chunks[i].file_idx] < U32
    /\ \A j \in 1..Len(rc_chunks) :
          rc_chunks[j].file_idx = rc_chunks[i].file_idx
              => rc_chunks[j].offset <= rc_vol[rc_chunks[j].file_idx]

\* C9 amended: in a volume shorter than 2^32 all of whose chunks have
\* offset <= volume_length, every chunk has offset +
\* real_compressed_length <= volume_length after reconciliation.
C9_WithinVolume ==
    RcDone({"cli", "core"}) =>
        \A i \in 1..Len(rc_chunks) :
            RcVolumeWellFormed(i) =>
                rc_chunks[i].offset + rc_real[i] <= rc_vol[rc_chunks[i].file_idx]

\* C9 witness: a header length that ran past the end of the volume was cut
\* back to end exactly at the volume length.
C9_Witness ==
    /\ RcDone({"cli", "core"})
    /\ \E i \in 1..Len(rc_chunks) :
          /\ RcVolumeWellFormed(i)
          /\ rc_chunks[i].offset + rc_chunks[i].c_len > rc_vol[rc_chunks[i].file_idx]
          /\ rc_chunks[i].offset + rc_real[i] = rc_vol[rc_chunks[i].file_idx]

\* C10: after reconciliation, consecutive chunks of a volume in offset
\* order do not overlap: offset[i+1] >= offset[i] + real_compressed_length[i].
C10_NoOverlap ==
    RcDone({"cli", "core"}) =>
        \A v \in RcVolumes :
            LET s == sorted_indices(rc_chunks, v)
            IN  \A k \in 1..(Len(s) - 1) :
                    rc_chunks[s[k + 1]].offset >=
                        rc_chunks[s[k]].offset + rc_real[s[k]]

\* C10 witness: two chunks of one volume at different offsets, the first
\* with a header length that would have run into the second.
C10_Witness ==
    /\ RcDone({"cli", "core"})
    /\ \E i, j \in 1..Len(rc_chunks) :
          /\ rc_chunks[i].file_idx = rc_chunks[j].file_idx
          /\ rc_chunks[i].offset < rc_chunks[j].offset
          /\ rc_chunks[i].offset + rc_chunks[i].c_len > rc_chunks[j].offset
          /\ rc_chunks[i].offset + rc_real[i] = rc_chunks[j].offset

(***************************************************************************)
(* Output path claims.                                                     *)
(***************************************************************************)
\* The string has a ".." component, whichever separator delimits it.
HasDotDot(str) ==
    \E i \in 1..(Len(str) - 1) :
        /\ str[i] = "." /\ str[i + 1] = "."
        /\ (i = 1 \/ str[i - 1] \in {"/", "\\"})
        /\ (i + 1 = Len(str) \/ str[i + 2] \in {"/", "\\"})

\* C5: extracting a file whose directory or filename has a ".." component
\* fails with a Security error, and every path created or handed to the
\* sink consists of normal components only.
C5_NoTraversal ==
    /\ px_pc \in {"created", "error"} /\ (HasDotDot(px_dir) \/ HasDotDot(px_fname))
          => px_pc = "error" /\ px_err = "Security"
    /\ px_pc = "created"
          => px_path # <<>> /\ \A k \in 1..Len(px_path) : px_path[k].kind = "Normal"

\* C5 restricted to the legacy do_unpack, where sanitize_path is applied.
C5_LegacyNoTraversal == px_impl = "legacy" => C5_NoTraversal

\* A ".." path was refused by the legacy do_unpack.
C5_LegacyWitness ==
    /\ px_impl = "legacy"
    /\ px_pc = "error"
    /\ HasDotDot(px_fname)

\* UnpackPlan::extract handed the sink a path that climbs out of the root.
C5_CoreEscape ==
    /\ px_impl = "core"
    /\ px_pc = "created"
    /\ px_path # <<>>
    /\ px_path[1].kind = "ParentDir"

(***************************************************************************)
(* Pack pipeline claims.                                                   *)
(***************************************************************************)
\* C2: whatever order the producers deliver in, the writer thread writes
\* the buffers in strictly ascending chunk position: the k-th write is that
\* of position k-1, so every position is written once and only after all
\* the positions below it.
C2_AscendingWrites ==
    pk_impl = "legacy" =>
        \A k \in 1..Len(pk_written) : pk_written[k] = k - 1

\* Every buffer was written although the writer had received a later
\* position before an earlier one.
C2_Witness ==
    /\ pk_impl = "legacy"
    /\ pk_pc = "ok"
    /\ Len(pk_written) = MaxPackChunks
    /\ pk_reordered

\* The writes made so far to volume v of the given kinds, as log indices.
PkExtents(v, kinds) ==
    { k \in 1..Len(pk_log) : pk_log[k].vol = v /\ pk_log[k].kind \in kinds }

PkOverlap(a, b) ==
    /\ a.len > 0 /\ b.len > 0
    /\ a.start < b.start + b.len
    /\ b.start < a.start + a.len

PkMonotonic ==
    \A i, j \in 1..Len(pk_table) :
        /\ pk_table[i].archive_file_index = pk_table[j].archive_file_index
        /\ pk_table[i].id < pk_table[j].id
        => /\ pk_table[i].offset <= pk_table[j].offset
           /\ pk_table[i].offset + pk_table[i].size_compressed <= pk_table[j].offset

\* C3: after a successful pack the finalized chunk table has monotonic
\* offsets per volume: of two chunks of one volume the one with the smaller
\* id has the smaller-or-equal offset, and its offset plus its compressed
\* size is at most the other's offset.
C3_MonotonicTable == pk_pc = "ok" => PkMonotonic

\* A pack reported success with a table in which a later chunk of a volume
\* starts below an earlier one.
C3_WrappedTable ==
    /\ pk_pc = "ok"
    /\ \E i, j \in 1..Len(pk_table) :
           /\ pk_table[i].archive_file_index = pk_table[j].archive_file_index
           /\ pk_table[i].id < pk_table[j].id
           /\ pk_table[j].offset < pk_table[i].offset

\* No volume of the run has reached 2^32 bytes.
PkVolumesBelowWrap ==
    \A k \in 1..Len(pk_log) : pk_log[k].start + pk_log[k].len < U32

\* C3 for the runs in which no volume reaches 2^32 bytes.
C3_MonotonicBelowWrap == pk_pc = "ok" /\ PkVolumesBelowWrap => PkMonotonic

\* C4: the header size computed before streaming is the offset in volume 0
\* of the first chunk payload written there, and the header bytes written
\* to volume 0 (chunk table back-patch included) occupy exactly
\* [0, header_size) and overlap no chunk payload.
C4_HeaderPrediction ==
    /\ \A k \in PkExtents(0, {"payload"}) :
           (\A m \in PkExtents(0, {"payload"}) : k <= m)
               => pk_log[k].start = pk_header.header_size
    /\ \A k \in PkExtents(0, {"header"}) :
           pk_log[k].start = 0 /\ pk_log[k].len = pk_header.header_size
    /\ \A k \in PkExtents(0, {"table"}) :
           pk_log[k].start + pk_log[k].len <= pk_header.header_size
    /\ \A k \in PkExtents(0, {"header", "table"}) :
           \A m \in PkExtents(0, {"payload"}) : ~PkOverlap(pk_log[k], pk_log[m])

\* C4 for the legacy do_pack alone.
C4_LegacyHeaderPrediction == pk_impl = "legacy" => C4_HeaderPrediction

\* C4 for pack_archive on configs of fewer than 2^16 files.
C4_CliBelowFileLimit ==
    pk_impl = "cli" /\ Len(pk_cfg.files) < U16 => C4_HeaderPrediction

\* pack_archive reported success after writing a header over a payload.
C4_HeaderOverPayload ==
    /\ pk_impl = "cli"
    /\ pk_pc = "ok"
    /\ \E k \in PkExtents(0, {"header"}) :
           \E m \in PkExtents(0, {"payload"}) : PkOverlap(pk_log[k], pk_log[m])

(***************************************************************************)
(* Round-trip claims.                                                      *)
(***************************************************************************)
RtIdentity == \A f \in 1..Len(rt_cfg.files) : rt_out[f] = rt_src[f]

\* The chunk ids are exactly the table positions 0..n-1.
RtIdsArePositions ==
    /\ \A i, j \in 1..Len(rt_cfg.chunks) :
           rt_cfg.chunks[i].id = rt_cfg.chunks[j].id => i = j
    /\ \A i \in 1..Len(rt_cfg.chunks) : rt_cfg.chunks[i].id < Len(rt_cfg.chunks)

\* Every chunk id is listed once, by one file.
RtListedOnce ==
    \A i \in 1..Len(rt_cfg.chunks) :
        Cardinality({ <<f, k>> \in (1..Len(rt_cfg.files)) \X (1..MaxRtChunks + 1) :
                        /\ k <= Len(rt_cfg.files[f].chunks)
                        /\ rt_cfg.files[f].chunks[k] = rt_cfg.chunks[i].id }) = 1

\* Every source file is as long as its chunk list declares.
RtSizesMatch ==
    \A f \in 1..Len(rt_cfg.files) : Len(rt_src[f]) = declared_len(rt_cfg, f)

\* C1 as stated: for every config and every source content, each file
\* extracted from the archive do_pack produced equals the source packed.
C1_Original == rt_pc = "extracted" => RtIdentity

\* C1, amended: the identity holds for the configs whose chunk ids are the
\* table positions, each listed once, and whose source files are as long
\* as their chunk lists declare.
C1_RoundTrip ==
    rt_pc = "extracted" /\ RtIdsArePositions /\ RtListedOnce /\ RtSizesMatch
        => RtIdentity

\* A two-chunk file, encoded and spread over both volumes, came back whole.
C1_Witness ==
    /\ rt_pc = "extracted"
    /\ RtIdsArePositions /\ RtListedOnce /\ RtSizesMatch
    /\ \E f \in 1..Len(rt_cfg.files) :
           Len(rt_cfg.files[f].chunks) = MaxRtChunks /\ Len(rt_out[f]) > MaxRtChunks
    /\ \E i \in 1..Len(rt_cfg.chunks) :
           /\ rt_cfg.chunks[i].flags # CHUNK_COPYCOMP
           /\ rt_cfg.chunks[i].archive_file_index # 0

(***************************************************************************)
(* Extraction claims.                                                      *)
(***************************************************************************)
\* The bytes of chunk id cid in its volume, as the extraction reads them.
ExRawOf(cid) ==
    read_volume(ex_vols[ex_chunks[cid + 1].file_idx].bytes,
                ex_chunks[cid + 1].offset, ex_real[cid + 1])

\* Decompressing chunk id cid fails.
ExFails(cid) ==
    /\ cid + 1 \in DOMAIN ex_chunks
    /\ ex_real # <<>>
    /\ ~decompress(ExRawOf(cid), ex_chunks[cid + 1].flags, ex_chunks[cid + 1].d_len).ok

\* What the writers received for chunks whose decompression failed.
ExFailedPieces ==
    { p \in UNION { { ex_out[f].pieces[k] : k \in 1..Len(ex_out[f].pieces) } :
                      f \in 1..Len(ex_out) } : ExFails(p.cid) }

IsSuffix(t, s) ==
    Len(t) <= Len(s) /\ SubSeq(s, Len(s) - Len(t) + 1, Len(s)) = t

ExRecoverable ==
    \A p \in ExFailedPieces :
        IF ex_keep_raw
        THEN ex_err = "none" /\ ex_pc # "err"
        ELSE /\ ex_err = decompress(ExRawOf(p.cid), ex_chunks[p.cid + 1].flags,
                                     ex_chunks[p.cid + 1].d_len).err
             /\ ~IsSuffix(ExRawOf(p.cid), p.bytes)

\* C11: when decompressing a chunk fails, then without keep_raw the
\* extraction fails with the codec's error, whatever the codec flag, and the
\* chunk's raw bytes are not written; with keep_raw the extraction goes on
\* and succeeds.  Stated of UnpackPlan::extract and of the legacy do_unpack.
C11_Recoverable == ex_impl \in {"core", "legacy"} => ExRecoverable

\* C11 holds of UnpackPlan::extract alone.
C11_CoreRecoverable == ex_impl = "core" => ExRecoverable

\* The legacy do_unpack reported success without keep_raw after it wrote the
\* raw bytes of a chunk that failed to decompress.
C11_LegacyRawWithoutKeepRaw ==
    /\ ex_impl = "legacy"
    /\ ~ex_keep_raw
    /\ ex_pc = "ok"
    /\ \E p \in ExFailedPieces : IsSuffix(ExRawOf(p.cid), p.bytes)

\* UnpackPlan::extract failed with the codec's error, without keep_raw.
C11_CoreFailure ==
    /\ ex_impl = "core"
    /\ ~ex_keep_raw
    /\ ex_pc = "err"
    /\ ex_err = "Decompression"
    /\ ExFailedPieces # {}

\* C12: with keep_raw, the bytes a chunk whose decompression failed
\* contributes to its output file are exactly the real_compressed_length
\* raw bytes of the source volume from the chunk's offset on; nothing the
\* codec wrote before it failed remains.  Stated of UnpackPlan::extract.
C12_KeepRawOutput ==
    ex_impl = "core" /\ ex_keep_raw =>
        \A p \in ExFailedPieces :
            /\ p.bytes = ExRawOf(p.cid)
            /\ Len(p.bytes) = ex_real[p.cid + 1]

\* What does hold with keep_raw: the raw bytes, read from the chunk's
\* offset, are the last thing the chunk contributes.
C12_RawFromOffsetLast ==
    ex_impl = "core" /\ ex_keep_raw =>
        \A p \in ExFailedPieces :
            /\ IsSuffix(ExRawOf(p.cid), p.bytes)
            /\ Len(ExRawOf(p.cid)) = ex_real[p.cid + 1]

\* UnpackPlan::extract succeeded with keep_raw and left, ahead of the raw
\* bytes of a failed chunk, what the codec had written before it failed.
C12_PartialBeforeRaw ==
    /\ ex_impl = "core"
    /\ ex_keep_raw
    /\ ex_pc = "ok"
    /\ \E p \in ExFailedPieces :
          /\ IsSuffix(ExRawOf(p.cid), p.bytes)
          /\ Len(p.bytes) > Len(ExRawOf(p.cid))

ExEventsOf(kind) == { k \in 1..Len(ex_events) : ex_events[k].kind = kind }

ExFlushed == { f \in 1..Len(ex_out) : ex_out[f].flushed }

\* C13: the observer of UnpackPlan::extract gets Start(total_files) before
\* any Inc, exactly one Inc(1) for each file whose extraction completed, and
\* Finish only after every Inc; a run that succeeded delivered total_files
\* Inc events and then Finish, however the workers interleave.
C13_ProgressLifecycle ==
    ex_impl = "core" =>
        /\ ex_events # <<>> => ex_events[1] = [kind |-> "Start", n |-> Len(ex_map)]
        /\ ExEventsOf("Start") \subseteq {1}
        /\ \A k \in ExEventsOf("Inc") : ex_events[k].n = 1
        /\ Cardinality(ExEventsOf("Inc")) = Cardinality(ExFlushed)
        /\ \A k \in ExEventsOf("Finish") :
              /\ k = Len(ex_events)
              /\ \A w \in ExWorkers : ex_worker[w].file = 0
        /\ ex_pc = "ok" =>
              /\ Cardinality(ExEventsOf("Inc")) = Len(ex_map)
              /\ ExEventsOf("Finish") = {Len(ex_events)}

\* A run over as many files as the map may hold succeeded: Start, one Inc
\* per file, Finish.
C13_Witness ==
    /\ ex_impl = "core"
    /\ ex_pc = "ok"
    /\ Len(ex_map) = MaxExFiles
    /\ Len(ex_events) = MaxExFiles + 2
    /\ ex_events[Len(ex_events)].kind = "Finish"

RECURSIVE ExBytesOf(_)
ExBytesOf(pieces) ==
    IF pieces = <<>> THEN <<>> ELSE Head(pieces).bytes \o ExBytesOf(Tail(pieces))

\* The ids of a chunk-id list that the table holds, in list order.
RECURSIVE ExKnownIds(_)
ExKnownIds(ids) ==
    IF ids = <<>> THEN <<>>
    ELSE (IF Head(ids) + 1 \in DOMAIN ex_chunks THEN <<Head(ids)>> ELSE <<>>)
         \o ExKnownIds(Tail(ids))

\* What one file's extraction yields when it is run alone, front to back.
ExSequential(f) ==
    ExtractChunks(ex_chunks, ex_real, [v \in DOMAIN ex_vols |-> ex_vols[v].bytes],
                  ex_map[f], 1, ex_keep_raw, <<>>).data

\* The chunks a file's writer has received are the first of its chunk-id
\* list, in list order, and a finished file holds what a sequential
\* extraction of it yields.
ExMapOrder ==
    \A f \in 1..Len(ex_out) :
        LET pieces == ex_out[f].pieces
        IN  /\ Len(pieces) <= Len(ExKnownIds(ex_map[f]))
            /\ \A k \in 1..Len(pieces) : pieces[k].cid = ExKnownIds(ex_map[f])[k]
            /\ ex_out[f].flushed => ExBytesOf(pieces) = ExSequential(f)
            /\ \A w1, w2 \in ExWorkers :
                  ex_worker[w1].file = f /\ ex_worker[w2].file = f => w1 = w2

\* A step that writes to a file's stream is taken by the one worker that
\* holds the file, and writes to that stream only.
ExOwnStream ==
    \A f \in 1..Len(ex_out) :
        ex_out'[f].pieces # ex_out[f].pieces =>
            /\ \E w \in ExWorkers :
                  /\ ex_worker[w].file = f
                  /\ ex_worker'[w] # ex_worker[w]
                  /\ \A w2 \in ExWorkers \ {w} : ex_worker'[w2] = ex_worker[w2]
            /\ \A g \in 1..Len(ex_out) \ {f} : ex_out'[g].pieces = ex_out[g].pieces

\* C14: in UnpackPlan::extract the bytes of each output file are the
\* concatenation of its chunks' outputs in the order of the file's chunk-id
\* list, however the files are spread over the workers, and no worker
\* writes to the output stream of a file it does not hold.
C14_MapOrder ==
    /\ [](ex_impl = "core" => ExMapOrder)
    /\ [][ex_impl = "core" => ExOwnStream]_vars

\* Two workers hold one file each at the same time; one has written two
\* different chunks to its file, the other one chunk to its own.
C14_Witness ==
    /\ ex_impl = "core"
    /\ ex_pc = "running"
    /\ \E f, g \in 1..Len(ex_out) :
          /\ f # g
          /\ \E w1, w2 \in ExWorkers : ex_worker[w1].file = f /\ ex_worker[w2].file = g
          /\ Len(ex_out[f].pieces) >= 2
          /\ Len(ex_out[g].pieces) >= 1
          /\ ex_out[f].pieces[1].cid # ex_out[f].pieces[2].cid

(***************************************************************************)
(* Metadata claims.                                                        *)
(***************************************************************************)
MdSameNames == md_meta2.user_files = md_meta.user_files

MdSameDirectories == md_meta2.directories = md_meta.directories

MdSameMap == md_meta2.map_entries = md_meta.map_entries

MdSameChunkIds ==
    /\ Len(md_meta2.map_entries) = Len(md_meta.map_entries)
    /\ \A f \in 1..Len(md_meta.map_entries) :
          md_meta2.map_entries[f].chunk_ids = md_meta.map_entries[f].chunk_ids

MdSameChunks ==
    /\ Len(md_meta2.chunks) = Len(md_meta.chunks)
    /\ \A i \in 1..Len(md_meta.chunks) :
          /\ md_meta2.chunks[i].flags = md_meta.chunks[i].flags
          /\ md_meta2.chunks[i].d_len = md_meta.chunks[i].d_len
          /\ md_meta2.real_c_len[i] = md_meta.real_c_len[i]

\* The directory a map entry resolves to, as a path of the host.
MdDirOf(meta, f) == dir_display(raw_dir(meta.directories, meta.map_entries[f].dir_idx))

\* C15: load, emit config, re-pack, load yields the same filenames, the
\* same directory list in the same order, the same dir_idx and chunk-id
\* list for every file and the same flags and sizes for every chunk.
C15_RoundTripMetadata ==
    md_pc = "reloaded" =>
        MdSameNames /\ MdSameDirectories /\ MdSameMap /\ MdSameChunks

\* C15, the part do_unpack and do_pack keep: names, chunk-id lists, chunk
\* flags and sizes, and the directory every file resolves to.
C15_LegacyKept ==
    md_pc = "reloaded" =>
        /\ MdSameNames
        /\ MdSameChunkIds
        /\ MdSameChunks
        /\ \A f \in 1..Len(md_meta.map_entries) : MdDirOf(md_meta2, f) = MdDirOf(md_meta, f)

\* An archive whose directories are stored as "b", "a" comes back with
\* them as "a", "b", and a file that was in directory 1 is in directory 2.
C15_DirectoriesResorted ==
    /\ md_pc = "reloaded"
    /\ md_impl = "legacy"
    /\ md_meta.directories = << <<".">>, <<"b">>, <<"a">> >>
    /\ md_meta2.directories = << <<".">>, <<"a">>, <<"b">> >>
    /\ \E f \in 1..Len(md_meta.map_entries) :
          /\ md_meta.map_entries[f].dir_idx = 1
          /\ md_meta2.map_entries[f].dir_idx = 2

\* An archive with a directory no file is in comes back without it.
C15_UnusedDirectoryDropped ==
    /\ md_pc = "reloaded"
    /\ Len(md_meta2.directories) < Len(md_meta.directories)

\* generate_config_struct leaves one chunk id in the entry of a file that
\* has two.
C15_CoreConfigFirstChunkOnly ==
    /\ md_impl = "core"
    /\ md_pc = "emitted"
    /\ \E f \in 1..Len(md_meta.map_entries) :
          /\ Len(md_meta.map_entries[f].chunk_ids) = 2
          /\ Len(md_cfg.files[f].chunks) = 1

(***************************************************************************)
(* Pack pipeline: a failed producer.                                       *)
(***************************************************************************)
\* A producer's closure returned an error and handed it to the channel.
PkProducerFailed ==
    /\ pk_impl = "legacy"
    /\ \E j \in DOMAIN pk_job : pk_job[j] = "done" /\ ~pk_res[j].ok

PkEnded == pk_pc \in {"ok", "err"}

PkTablePatched == PkExtents(0, {"table"}) # {}

\* The writer thread ended on its own account: an archive_file_index with
\* no writer, or the overflow of a running offset.
PkWriterOwnFailure ==
    \/ /\ pk_wr = "err"
       /\ pk_err = "Config"
       /\ pk_table[pk_next + 1].archive_file_index \notin DOMAIN pk_off
    \/ /\ pk_wr = "panic"
       /\ pk_err = "WriterPanicked"

\* C16 as stated: when a producer's job returned an error, do_pack returns
\* that error, never patches the chunk table and never reports success.
C16_Original ==
    (PkProducerFailed /\ PkEnded) =>
        pk_pc = "err" /\ pk_err = "Codec" /\ ~PkTablePatched

\* C16: when a producer's job returned an error, do_pack ends with an
\* error and the chunk table is never back-patched; the error is the
\* producer's unless the writer thread had failed on its own account
\* before it received one, and then it is the writer's.
C16_ProducerErrorAborts ==
    (PkProducerFailed /\ PkEnded) =>
        /\ pk_pc = "err"
        /\ ~PkTablePatched
        /\ pk_wr \in {"err", "panic"}
        /\ pk_err = "Codec" \/ PkWriterOwnFailure

\* The second of three jobs failed after the first payload was written;
\* do_pack ended with the producer's error.
C16_Witness ==
    /\ PkProducerFailed
    /\ pk_pc = "err"
    /\ pk_err = "Codec"
    /\ pk_written # <<>>
    /\ \E j \in DOMAIN pk_job : pk_res[j].ok /\ pk_job[j] = "done"

\* A producer failed, but the writer had already stopped on a chunk whose
\* archive_file_index has no writer: do_pack ends with the Config error.
C16_WriterFailedFirst ==
    /\ PkProducerFailed
    /\ pk_pc = "err"
    /\ pk_err = "Config"

(***************************************************************************)
(* Header checks of the load.                                              *)
(***************************************************************************)
MdLoaded == md_pc \in {"loaded", "extracted", "emitted", "packed", "reloaded"}

MdLoadEnded == md_pc # "start" /\ md_pc # "idle"

\* C17: the load of an archive whose header has num_dirs = 0 fails with a
\* Format error; every archive that loads has num_dirs >= 1 and a directory
\* list, root included, of exactly num_dirs entries.
C17_NumDirsChecked ==
    /\ (MdLoadEnded /\ md_disk.num_dirs = 0) => (md_pc = "err" /\ md_err = "Format")
    /\ MdLoaded => (md_meta.num_dirs >= 1 /\ Len(md_meta.directories) = md_meta.num_dirs)

\* C17, the part that holds: an archive with num_dirs >= 1 loads with a
\* directory list of num_dirs entries.
C17_CountedDirectories ==
    (MdLoaded /\ md_disk.num_dirs >= 1) => Len(md_meta.directories) = md_disk.num_dirs

\* ArchiveMetadata::load returns the metadata of an archive with
\* num_dirs = 0, its directory list is the root alone, and the config says
\* total_directories = 1.
C17_CoreLoadsRootless ==
    /\ md_impl = "core"
    /\ md_pc = "emitted"
    /\ md_disk.num_dirs = 0
    /\ md_meta.directories = << <<".">> >>
    /\ md_cfg.archive.total_directories = 1

\* do_unpack fails on the same archive, with an I/O error or a panic.
C17_LegacyRootlessFails ==
    /\ md_impl = "legacy"
    /\ md_disk.num_dirs = 0
    /\ md_pc = "err"
    /\ md_err \in {"Io", "panic"}

\* C20: the load of an archive whose version byte is not 0 is rejected with
\* UnsupportedVersion; no metadata is returned and no file is extracted.
C20_VersionChecked ==
    (MdLoadEnded /\ md_disk.version # 0) =>
        /\ md_pc = "err"
        /\ md_err = "UnsupportedVersion"
        /\ md_meta = <<>>
        /\ md_files = <<>>

\* An archive of version 1 is loaded and its files are extracted; the
\* config repeats the version.
C20_VersionOneExtracted ==
    /\ md_disk.version = 1
    /\ md_pc = "emitted"
    /\ md_meta.version = 1
    /\ md_files # <<>>
    /\ md_cfg.archive.version = 1

\* No run of the load ends with UnsupportedVersion.
C20_NeverUnsupportedVersion == md_err # "UnsupportedVersion"

(***************************************************************************)
(* Extraction: a split volume that is not there.                           *)
(***************************************************************************)
\* A chunk refers to a split volume the header names and whose file is
\* missing.
ExSplitMissing ==
    \E i \in 1..Len(ex_chunks) :
        /\ ex_chunks[i].file_idx >= 1
        /\ ex_chunks[i].file_idx \in DOMAIN ex_vols
        /\ ~ex_vols[ex_chunks[i].file_idx].present

ExNoOutput == \A f \in 1..Len(ex_out) : ~ex_out[f].created

\* C18: when a chunk refers to a split volume whose file is missing, the
\* reconciliation fails with SplitFileMissing and the unpack ends before
\* any output file is created; no length is computed for the chunks.
C18_MissingSplitFatal ==
    (ex_impl \in {"legacy", "cli"} /\ ExSplitMissing /\ ex_pc # "start") =>
        /\ ex_pc = "err"
        /\ ex_err = "SplitFileMissing"
        /\ ex_real = <<>>
        /\ ExNoOutput

\* C18 for do_unpack alone.
C18_LegacyMissingSplitFatal ==
    (ex_impl = "legacy" /\ ExSplitMissing /\ ex_pc # "start") =>
        /\ ex_pc = "err"
        /\ ex_err = "SplitFileMissing"
        /\ ex_real = <<>>
        /\ ExNoOutput

C18_LegacyWitness ==
    /\ ex_impl = "legacy"
    /\ ExSplitMissing
    /\ ex_pc = "err"
    /\ ex_err = "SplitFileMissing"

\* unpack_archive on an archive whose split volume is missing: the lengths
\* are computed with the volume taken as empty, every output file is
\* created, and the run ends without an error.
C18_CliMissingSplitIgnored ==
    /\ ex_impl = "cli"
    /\ ExSplitMissing
    /\ ex_pc = "ok"
    /\ ex_real # <<>>
    /\ \A f \in 1..Len(ex_out) : ex_out[f].created /\ ex_out[f].flushed

(***************************************************************************)
(* Codecs that are not implemented.                                        *)
(***************************************************************************)
\* The methods compress_data has an encoder for.
MethodsEncoded == {"Copy", "Zero", "Zlib", "Bzip", "Lzma"}

PkUnsupportedRequested ==
    /\ pk_impl = "cli"
    /\ \E f \in 1..Len(pk_cfg.files) : pk_cfg.files[f].compression \notin MethodsEncoded

\* C19: a request to compress with a codec that is not supported (DZ_RANGE,
\* MP3, JPEG, COMBUF, RANDOM_ACCESS) is refused: no chunk is written or
\* entered into the table under another codec, and the pack does not
\* succeed.
C19_UnsupportedCodecRejected ==
    PkUnsupportedRequested =>
        /\ pk_pc \notin {"writing", "ok"}
        /\ \A k \in 1..Len(pk_table) :
              pk_cfg.files[k].compression \in MethodsEncoded

\* pack_archive succeeded on a config whose first file asks for Dz; its
\* chunk is in the table with the flags of COPY.
C19_DzWrittenAsCopy ==
    /\ pk_impl = "cli"
    /\ pk_pc = "ok"
    /\ pk_cfg.files[1].compression = "Dz"
    /\ pk_table[1].flags = CHUNK_COPYCOMP

\* unpack_archive ended without an error on an archive with a DZ_RANGE
\* chunk: the chunk's file was created and flushed without its bytes.
C19_CliSkipsUnsupported ==
    /\ ex_impl = "cli"
    /\ ex_pc = "ok"
    /\ \E f \in 1..Len(ex_map) :
          /\ ex_out[f].flushed
          /\ \E k \in 1..Len(ex_map[f]) :
                /\ ex_map[f][k] + 1 \in DOMAIN ex_chunks
                /\ HasBit(ex_chunks[ex_map[f][k] + 1].flags, CHUNK_DZ)
                /\ \A p \in 1..Len(ex_out[f].pieces) : ex_out[f].pieces[p].cid # ex_map[f][k]

(***************************************************************************)
(* Reconciler: a limit below the offset, and volumes of 2^32 bytes or      *)
(* more.                                                                   *)
(***************************************************************************)
RcLimitBelow(i) == RcLimit(i) < rc_chunks[i].offset

\* C23: when the limit (the next chunk's offset in the volume, or the
\* volume length for the last chunk) is below the chunk's offset,
\* real_compressed_length is the header's compressed_length, not 0.
C23_FallBackToHeader ==
    RcDone({"core", "cli"}) =>
        \A i \in 1..Len(rc_chunks) :
            RcLimitBelow(i) => rc_real[i] = rc_chunks[i].c_len

\* C23 for calculate_chunk_sizes and the legacy ZSIZE correction alone.
C23_CoreFallBack ==
    RcDone({"core", "legacy"}) =>
        \A i \in 1..Len(rc_chunks) :
            RcLimitBelow(i) => rc_real[i] = rc_chunks[i].c_len

C23_CoreWitness ==
    /\ RcDone({"core"})
    /\ \E i \in 1..Len(rc_chunks) :
          /\ RcLimitBelow(i)
          /\ rc_real[i] = rc_chunks[i].c_len
          /\ rc_real[i] > 0

\* unpack_archive: a chunk that starts beyond the end of its volume has a
\* nonzero header length and is left with length 0.
C23_CliZero ==
    /\ RcDone({"cli"})
    /\ \E i \in 1..Len(rc_chunks) :
          /\ RcLimitBelow(i)
          /\ rc_chunks[i].c_len > 0
          /\ rc_real[i] = 0

\* Chunk i is the last of its volume in offset order.
RcLast(i) == RcAfter(i) = {}

RcVolLen(i) == rc_vol[rc_chunks[i].file_idx]

\* C29 as stated: for the last chunk of a volume, real_compressed_length =
\* volume_length - offset holds only when volume_length < 2^32.
C29_Original ==
    RcDone({"core", "legacy"}) =>
        \A i \in 1..Len(rc_chunks) :
            (RcLast(i) /\ rc_real[i] = RcVolLen(i) - rc_chunks[i].offset)
                => RcVolLen(i) < U32

\* C29 amended: the limit of the last chunk of a volume is volume_length
\* mod 2^32.  With volume_length < 2^32 and offset <= volume_length the
\* result is volume_length - offset.  With volume_length >= 2^32 the result
\* is limit - offset, smaller than the true remaining length, when limit >=
\* offset, and the header's compressed_length when limit < offset; it is
\* volume_length - offset only if the header value happens to be that.
C29_Arithmetic32 ==
    RcDone({"core", "legacy"}) =>
        \A i \in 1..Len(rc_chunks) :
            RcLast(i) =>
                LET limit == RcVolLen(i) % U32
                    offset == rc_chunks[i].offset
                IN  /\ limit >= offset => rc_real[i] = limit - offset
                    /\ limit < offset => rc_real[i] = rc_chunks[i].c_len
                    /\ (RcVolLen(i) < U32 /\ offset <= RcVolLen(i))
                         => rc_real[i] = RcVolLen(i) - offset
                    /\ (RcVolLen(i) >= U32 /\ limit >= offset)
                         => rc_real[i] < RcVolLen(i) - offset
                    /\ (RcVolLen(i) >= U32 /\ rc_real[i] = RcVolLen(i) - offset)
                         => (limit < offset /\ rc_chunks[i].c_len = RcVolLen(i) - offset)

\* In a volume of 2^32 + 5 bytes the last chunk, at offset 2, is given 3
\* bytes.
C29_Witness ==
    /\ RcDone({"core", "legacy"})
    /\ \E i \in 1..Len(rc_chunks) :
          /\ RcLast(i)
          /\ RcVolLen(i) = U32 + 5
          /\ rc_chunks[i].offset = 2
          /\ rc_real[i] = 3

\* The tie-break in a volume of 2^32 + 1 bytes.
C29_TieBreak ==
    /\ RcDone({"core", "legacy"})
    /\ \E i \in 1..Len(rc_chunks) :
          /\ RcLast(i)
          /\ RcVolLen(i) = U32 + 1
          /\ rc_chunks[i].offset = 2
          /\ rc_real[i] = rc_chunks[i].c_len

(***************************************************************************)
(* Pack pipeline: the channel closes.                                      *)
(***************************************************************************)
\* The writer is in rx.recv() for a position it does not hold.
PkWriterWaiting ==
    /\ pk_impl = "legacy"
    /\ pk_pc = "streaming"
    /\ pk_wr = "running"
    /\ pk_next < PkTotal
    /\ ~buffered(pk_next, pk_buf)

PkSomeLost == \E j \in DOMAIN pk_job : pk_job[j] = "lost"

\* A recv() on the closed, empty channel ends the writer with the
\* "disconnected" error.
PkClosedRecvFails ==
    (PkWriterWaiting /\ PkSendersGone /\ pk_chan = <<>> /\ pk_wr' # pk_wr) =>
        (pk_wr' = "err" /\ pk_err' = "Disconnected")

\* C24: when the channel closes while a position has not been received, the
\* writer returns the "compression disconnected" error and never Ok; when
\* every producer sends its message the writer never reports
\* disconnection, also when the channel closes while later positions are
\* only in its reorder buffer.
C24_Disconnection ==
    /\ [](pk_err = "Disconnected" => PkSomeLost)
    /\ [](PkSomeLost => pk_wr # "ok")
    /\ [][PkClosedRecvFails]_vars

\* The closure of the last of three jobs panicked before its send; the
\* writer wrote the two payloads it received and then found the channel
\* closed.
C24_Witness ==
    /\ pk_err = "Disconnected"
    /\ pk_wr = "err"
    /\ PkSomeLost
    /\ Len(pk_written) = 2

\* Every producer has sent and is gone, the channel is empty, and the
\* writer still has positions to write that are in its reorder buffer.
C24_ClosedWithBuffered ==
    /\ pk_impl = "legacy"
    /\ pk_pc = "streaming"
    /\ pk_wr = "running"
    /\ PkJobs # {}
    /\ \A j \in PkJobs : pk_job[j] = "done"
    /\ pk_chan = <<>>
    /\ pk_next < PkTotal
    /\ pk_buf # {}

(***************************************************************************)
(* Pack pipeline: the size of the reorder buffer.                          *)
(***************************************************************************)
\* C25: the number of out-of-order buffers held in the writer's reorder map
\* never exceeds the channel capacity plus the number of workers.
C25_ReorderBounded == Cardinality(pk_buf) <= channel_bound + Workers

\* What the loop does keep: every position but the one the writer waits for
\* may be in the map.
C25_BelowTotal ==
    (pk_impl = "legacy" /\ pk_pc = "streaming") =>
        Cardinality(pk_buf) <= PkTotal - 1

\* The job of position 0 is still compressing, every other job has sent,
\* the channel is empty and the map holds every other position.
C25_AllButFirstBuffered ==
    /\ pk_impl = "legacy"
    /\ pk_wr = "running"
    /\ pk_next = 0
    /\ pk_job[0] = "ready"
    /\ pk_chan = <<>>
    /\ pk_buf = PkJobs \ {0}
    /\ Cardinality(pk_buf) = channel_bound + Workers + 1

(***************************************************************************)
(* Pack pipeline: termination.                                             *)
(***************************************************************************)
PkWriterReturned == pk_wr \in {"ok", "err", "panic"}

PkSendsReturned == \A j \in DOMAIN pk_job : pk_job[j] = "done"

\* C26: the pipeline is deadlock-free and terminates: every producer's send
\* eventually returns and the writer thread eventually returns, also when
\* the writer aborts on an error while producers are blocked sending on a
\* full channel; do_pack then returns.
C26_PipelineTerminates ==
    (pk_pc = "streaming") ~>
        (pk_pc \in {"ok", "err"} /\ PkSendsReturned /\ PkWriterReturned)

\* The channel is full, a producer is blocked in send with its result, and
\* the next message the writer receives is a failed result.
C26_BlockedSenderBeforeAbort ==
    /\ pk_impl = "legacy"
    /\ pk_pc = "streaming"
    /\ pk_wr = "running"
    /\ Len(pk_chan) = channel_bound
    /\ ~pk_res[Head(pk_chan)].ok
    /\ ~buffered(pk_next, pk_buf)
    /\ \E j \in PkJobs : pk_job[j] = "ready"

\* do_pack has returned the error of the writer, which ended on a receive
\* from the full channel; every send has returned.
C26_Witness ==
    /\ pk_pc = "err"
    /\ pk_err = "Codec"
    /\ Len(pk_chan) = channel_bound - 1
    /\ \A j \in PkJobs : pk_job[j] = "done"

(***************************************************************************)
(* Volume read handles.                                                    *)
(***************************************************************************)
\* A worker opens a volume only in the step that resolves a chunk of that
\* volume, and only if it has not opened it before.
HdOpensLazily ==
    \A w \in DOMAIN hd_opens : \A v \in HdVolumes :
        hd_opens'[w][v] # hd_opens[w][v] =>
            /\ hd_worker[w].step = "entry"
            /\ hd_worker[w].k <= Len(hd_map[hd_worker[w].file])
            /\ HdChunkOf(w).file_idx = v
            /\ hd_opens[w][v] = 0
            /\ hd_opens'[w][v] = 1

\* C22: during parallel extraction a volume read handle is used by exactly
\* one worker: a worker opens a volume lazily on its first chunk from it
\* and at most once over all the files it handles, no handle is accessed
\* by two workers, and every read begins at the offset its own worker
\* sought.
C22_HandlesPerWorker ==
    /\ [](\A h \in DOMAIN hd_handle : Cardinality(hd_handle[h].users) <= 1)
    /\ [](\A w \in DOMAIN hd_opens : \A v \in HdVolumes : hd_opens[w][v] <= 1)
    /\ [](~hd_wrong)
    /\ [][HdOpensLazily]_vars

\* Both workers have opened the main volume and used their own handles, one
\* has sought to offset 2 and not yet read while the other's handle is at
\* another position.
C22_Witness ==
    /\ hd_pc = "running"
    /\ hd_opens[1][0] = 1
    /\ hd_opens[2][0] = 1
    /\ hd_handle[<<1, 0>>].users = {1}
    /\ hd_handle[<<2, 0>>].users = {2}
    /\ \E w \in ExWorkers : /\ hd_worker[w].step = "read"
                            /\ HdChunkOf(w) = HdChunk(0, 2)
                            /\ \E u \in ExWorkers \ {w} :
                                  hd_handle[<<u, 0>>].pos # 2

\* One worker has handled two map entries with chunks of the main volume
\* and has opened it once.
C22_RetainedAcrossFiles ==
    /\ hd_pc = "done"
    /\ Len(hd_map) = 2
    /\ \A f \in 1..2 : \E k \in 1..Len(hd_map[f]) : hd_map[f][k].file_idx = 0
    /\ hd_opens[1][0] = 1
    /\ \A v \in HdVolumes : hd_opens[2][v] = 0

(***************************************************************************)
(* The file map is not checked against the tables.                         *)
(***************************************************************************)
MdIds(f) == md_meta.map_entries[f].chunk_ids

MdUnknownId(f) == \E k \in 1..Len(MdIds(f)) : MdIds(f)[k] >= Len(md_meta.chunks)

MdDirOutOfRange(f) == md_meta.map_entries[f].dir_idx >= Len(md_meta.directories)

\* The decompressed lengths of the chunks of file f that the table has.
MdKnownLen(f) ==
    LET known == SelectSeq(MdIds(f), LAMBDA id : id < Len(md_meta.chunks))
    IN  SeqSum([k \in 1..Len(known) |-> md_meta.chunks[known[k] + 1].d_len])

MdCoreLoaded == md_impl = "core" /\ md_meta # <<>>

\* C27: extraction does not enforce the file-map invariant: a chunk id the
\* chunk table lacks is skipped (the file is produced without that chunk's
\* bytes and the extraction succeeds), and a dir_idx at or beyond the
\* number of directories is taken as the root directory, in
\* UnpackPlan::extract, do_list and generate_config_struct.
C27_FileMapNotEnforced ==
    MdCoreLoaded =>
        /\ md_pc # "err"
        /\ md_files # <<>> =>
              \A f \in 1..Len(md_meta.map_entries) : md_files[f] = MdKnownLen(f)
        /\ md_list # <<>> =>
              \A f \in 1..Len(md_meta.map_entries) :
                 /\ md_list[f].original_size = MdKnownLen(f)
                 /\ md_list[f].chunk_count = Len(MdIds(f))
                 /\ MdDirOutOfRange(f) => md_list[f].path = md_meta.user_files[f]
        /\ md_pc = "emitted" =>
              /\ Len(md_cfg.files) = Len(md_meta.map_entries)
              /\ \A f \in 1..Len(md_meta.map_entries) :
                    MdDirOutOfRange(f) => md_cfg.files[f].directory = <<".">>

\* A file whose list has an id the table lacks and whose dir_idx is out of
\* range was extracted with the bytes of its other chunks, listed and
\* written to the config.
C27_Witness ==
    /\ MdCoreLoaded
    /\ md_pc = "emitted"
    /\ md_list # <<>>
    /\ \E f \in 1..Len(md_meta.map_entries) :
          /\ MdUnknownId(f)
          /\ MdDirOutOfRange(f)
          /\ Len(md_meta.directories) > 1
          /\ md_files[f] > 0
          /\ md_list[f].chunk_count > Len(md_meta.chunks)

(***************************************************************************)
(* Flag names.                                                             *)
(***************************************************************************)
CdFlagsDone == cd_op = "flags" /\ cd_pc = "done"

\* C30: for every flags value built only from the ten defined bits,
\* encode_flags(decode_flags(flags)) = flags; a chunk with flags = 0 keeps
\* flags = 0 through unpack-to-config and re-pack.
C30_FlagsRoundTrip == CdFlagsDone => cd_out = cd_in

\* What the two functions do give: every value but 0 comes back, and 0
\* comes back as the COPY bit.
C30_NonZeroRoundTrip ==
    CdFlagsDone => cd_out = (IF cd_in = 0 THEN CHUNK_COPYCOMP ELSE cd_in)

\* flags = 0 was written to the config as "COPY" and re-packed as 0x100.
C30_ZeroBecomesCopy ==
    /\ CdFlagsDone
    /\ cd_in = 0
    /\ cd_wire = <<"COPY">>
    /\ cd_out = CHUNK_COPYCOMP

\* All ten bits set come back as they were.
C30_AllBitsKept ==
    /\ CdFlagsDone
    /\ cd_in = 2045
    /\ Len(cd_wire) = 10
    /\ cd_out = cd_in

(***************************************************************************)
(* The file -> chunk map block.                                            *)
(***************************************************************************)
CdIdsDone == cd_op = "ids" /\ cd_pc = "done"

CdHasTerminator(ids) == \E k \in 1..Len(ids) : ids[k] = CHUNK_LIST_TERMINATOR

CdFirstTerminator(ids) ==
    CHOOSE k \in 1..Len(ids) :
        /\ ids[k] = CHUNK_LIST_TERMINATOR
        /\ \A m \in 1..(k - 1) : ids[m] # CHUNK_LIST_TERMINATOR

\* Where write_file_chunk_map put record i.
CdWrittenAt(i) == 1 + SeqSum([j \in 1..(i - 1) |-> 2 * Len(cd_in[j][2]) + 4])

\* Record i was read from the position it was written at.
CdAligned(i) == cd_out.val[i].start = CdWrittenAt(i)

\* read(write(ids)) = ids and 2*|ids|+2 bytes were consumed after dir_idx.
CdListRoundTrips(i) ==
    /\ cd_out.val[i].chunk_ids = cd_in[i][2]
    /\ cd_out.val[i].stop - (cd_out.val[i].start + 2) = 2 * Len(cd_in[i][2]) + 2

\* A list holding the terminator came back cut at its first terminator.
CdListTruncated(i) ==
    LET ids == cd_in[i][2]
        k == CdFirstTerminator(ids)
    IN  /\ cd_out.val[i].chunk_ids = SubSeq(ids, 1, k - 1)
        /\ cd_out.val[i].stop = cd_out.val[i].start + 2 + 2 * k

\* The part of the claim about one list: a list read from where it was
\* written round-trips iff it holds no 0xFFFF, and is cut at the first
\* 0xFFFF otherwise.
CdListCodec ==
    /\ cd_out.ok
    /\ Len(cd_out.val) = Len(cd_in)
    /\ \A i \in 1..Len(cd_in) :
           CdAligned(i) =>
               /\ cd_out.val[i].dir_idx = cd_in[i][1]
               /\ CdListRoundTrips(i) <=> ~CdHasTerminator(cd_in[i][2])
               /\ CdHasTerminator(cd_in[i][2]) => CdListTruncated(i)

\* C28 as stated: the chunk-id list round-trips (2*|ids|+2 bytes consumed
\* after dir_idx) iff no id is 0xFFFF; a list with 0xFFFF is read back
\* truncated at that element and the records following it are read
\* misaligned.
C28_FollowingAllMisaligned ==
    CdIdsDone =>
        /\ CdListCodec
        /\ \A i, j \in 1..Len(cd_in) :
               (i < j /\ CdHasTerminator(cd_in[i][2])) => ~CdAligned(j)

\* C28 as the code has it: the same, but only the record right after a
\* truncated one is read misaligned for certain (it starts inside the list
\* that was cut); a later record can be back on its own position.
C28_NextMisaligned ==
    CdIdsDone =>
        /\ CdListCodec
        /\ \A i \in 1..(Len(cd_in) - 1) :
               (CdAligned(i) /\ CdHasTerminator(cd_in[i][2]))
                   => cd_out.val[i + 1].start < CdWrittenAt(i + 1)

\* A list ending in 0xFFFF was cut, the next record was read from inside
\* it, and the third record was read whole from its own position.
C28_Realigned ==
    /\ CdIdsDone
    /\ Len(cd_in) = 3
    /\ cd_in[1][2] = <<258, 65535>>
    /\ cd_out.val[1].chunk_ids = <<258>>
    /\ ~CdAligned(2)
    /\ cd_out.val[2].dir_idx = CHUNK_LIST_TERMINATOR
    /\ CdAligned(3)
    /\ CdListRoundTrips(3)
    /\ cd_in[3][2] # <<>>

\* A map without 0xFFFF came back whole.
C28_CleanRoundTrip ==
    /\ CdIdsDone
    /\ Len(cd_in) = 3
    /\ \A i \in 1..3 : ~CdHasTerminator(cd_in[i][2]) /\ CdListRoundTrips(i)
    /\ cd_in[1][2] = <<0, 1>>
    /\ cd_in[2][2] = <<258>>

(***************************************************************************)
(* The seven blocks.                                                       *)
(***************************************************************************)
CdBlocksDone == cd_op = "blocks" /\ cd_pc = "done"

CdNoZeroByte(strings) ==
    \A k \in 1..Len(strings) : \A m \in 1..Len(strings[k]) : strings[k][m] # 0

CdNoTerminatorId(map) ==
    \A k \in 1..Len(map) : ~CdHasTerminator(map[k][2])

CdReadBack == cd_out.ok /\ cd_out.val = cd_in

\* C21 as stated: the seven blocks written by DzipWriter and read back by
\* DzipReader in the same order with the same counts come back equal, for
\* every block content whose strings have no embedded zero byte.
C21_EveryContent ==
    (/\ CdBlocksDone
     /\ CdNoZeroByte(cd_in.strings)
     /\ CdNoZeroByte(cd_in.file_list))
        => CdReadBack

\* C21 for the contents the format can carry: also the header is the
\* magic, num_directories is at least 1 and no chunk id is 0xFFFF.
C21_FormatRoundTrip ==
    (/\ CdBlocksDone
     /\ CdNoZeroByte(cd_in.strings)
     /\ CdNoZeroByte(cd_in.file_list)
     /\ cd_in.settings.header = MAGIC
     /\ cd_in.settings.num_directories >= 1
     /\ CdNoTerminatorId(cd_in.map))
        => CdReadBack

\* Seven non-empty blocks with multi-byte values came back as written.
C21_Witness ==
    /\ CdBlocksDone
    /\ CdReadBack
    /\ cd_in.strings = << <<>>, <<195, 169, 98>> >>
    /\ cd_in.map = << <<513, <<258, 0>>>>, <<0, <<>>>> >>
    /\ Len(cd_in.chunks) = 2
    /\ cd_in.file_list # <<>>
    /\ cd_in.range[1] = 255
    /\ Len(cd_wire) = 76

\* A map with the chunk id 0xFFFF and nothing else out of the ordinary was
\* read without error and came back different.
C21_TerminatorIdLost ==
    /\ CdBlocksDone
    /\ cd_in.settings.header = MAGIC
    /\ cd_in.settings.num_directories = 1
    /\ CdNoZeroByte(cd_in.strings)
    /\ ~CdNoTerminatorId(cd_in.map)
    /\ cd_out.ok
    /\ cd_out.val.map = << <<1, <<258>>>>, <<65535, <<0, 7>>>> >>
    /\ cd_out.val.map # cd_in.map

====
